---- MODULE Spec2Model ----
(***************************************************************************)
(* A model of execnet's gateway_base.py: the value codec (Serializer /     *)
(* Unserializer), message framing, Channel, ChannelFactory, the gateway's  *)
(* receiver thread and SlaveGateway.serve; and of multi.py's Group.        *)
(*                                                                         *)
(* Python values are records [t |-> <type name>, v |-> <payload>]:         *)
(*   none (v = 0), bool (v a BOOLEAN), int (v an integer), bytes (v a      *)
(*   sequence of 0..255), str (v a sequence of code points), tuple and     *)
(*   list (v a sequence of values), dict (v a sequence of <<key, value>>   *)
(*   pairs with distinct keys, in insertion order), float (v its eight     *)
(*   packed bytes), object (a value of a type the codec has no dispatch    *)
(*   entry for), chan (v the identity of a Channel object).                *)
(* The interpreter dialect modelled is Python 3 (ISPY3).                   *)
(***************************************************************************)
EXTENDS Integers, Sequences, FiniteSets, TLC

VARIABLES
    \* ---- codec harness (SpecCodec): one Serializer.save / Unserializer.load run
    cobj,       \* the value handed to Serializer.save
    cstream,    \* the bytes Serializer.save wrote
    cres,       \* the outcome of Unserializer.load on cstream
    cmsg,       \* the Message handed to Message.writeto (NoMsg before that)
    cpc         \* "start" | "saved" | "loaded" | "written" | "read", "off" under the other specifications

cvars == <<cobj, cstream, cres, cmsg, cpc>>

VARIABLES
    \* ---- two connected gateways, sides "A" and "B" (Spec)
    chan,         \* the Channel objects created so far; an object's identity is its index
    channels,     \* [side -> ChannelFactory._channels], <<id, object>> pairs in insertion order
    callbacks,    \* [side -> ChannelFactory._callbacks], <<id, [cb, endmarker]>> pairs
    count,        \* [side -> ChannelFactory.count]
    finished,     \* [side -> ChannelFactory.finished]
    wire,         \* [side -> the bytes that side wrote to its io and the peer has not read yet]
    wclosed,      \* [side -> that side called io.close_write()]
    receivelock,  \* [side -> the user thread holding gateway._receivelock, or 0]
    rpc,          \* [side -> where the receiver thread is]
    rloc,         \* [side -> the ids left in the loop _finished_receiving is in]
    execqueue,    \* SlaveGateway._execqueue of side "B"
    th,           \* [user thread -> the Channel method it is in, with its locals]
    cblog,        \* [side -> the calls made to callbacks: [cb, arg], in call order]
    sentlog,      \* [side -> [channel id -> the items send() took and did not raise for, in order]]
    exc,          \* [call, raised]: the API call that ended last, and its exception or "none"
    ops,          \* the number of API calls made so far
    limit,        \* [calls, new]: the API calls, and of them the remote_exec and
                  \* newchannel calls, one run makes at most
    serve,        \* [pc, ran]: where SlaveGateway.serve of side "B" is, and the
                  \* tasks executetask ran: [o, outcome], in order
    group,        \* a multi.Group and the gateways made for it or handed to it
    multi         \* a multi.MultiChannel, and the call on it that is in progress

\* the two connected gateways
kvars == <<chan, channels, callbacks, count, finished, wire, wclosed, receivelock,
           rpc, rloc, execqueue, th, cblog, sentlog, exc, ops, limit, serve>>
mvars == <<kvars, group, multi>>
vars == <<cvars, mvars>>
\* what no method of a gateway, factory or channel changes (serve's own
\* position and log change in serve only, the group in Group's methods, the
\* multichannel in MultiChannel's)
hvars == <<cvars, limit, serve, group, multi>>

----------------------------------------------------------------------------
(* Python values *)

PyNone == [t |-> "none", v |-> 0]
PyBool(b) == [t |-> "bool", v |-> b]
PyInt(i) == [t |-> "int", v |-> i]
PyBytes(s) == [t |-> "bytes", v |-> s]
PyStr(s) == [t |-> "str", v |-> s]
PyTuple(s) == [t |-> "tuple", v |-> s]
PyList(s) == [t |-> "list", v |-> s]
PyDict(s) == [t |-> "dict", v |-> s]

\* a value Python can use as a dict key
RECURSIVE Hashable(_)
Hashable(x) ==
    CASE x.t \in {"list", "dict"} -> FALSE
      [] x.t = "tuple" -> \A k \in 1..Len(x.v) : Hashable(x.v[k])
      [] OTHER -> TRUE

----------------------------------------------------------------------------
(* Protocol constants, gateway_base.py:702-724 (ASCII codes of the opcodes) *)

FOUR_BYTE_INT_MAX == 2147483647
VERSION_NUMBER == 1
NONE == 110
PY2STRING == 115
PY3STRING == 116
UNICODE == 117
BYTES == 98
NEWLIST == 108
BUILDTUPLE == 84
SETITEM == 109
NEWDICT == 100
INT == 105
FLOAT == 102
TRUE_ == 49
FALSE_ == 48
STOP == 83
FLOAT_FORMAT_SIZE == 8

\* struct.pack("!i", i): four bytes, big-endian two's complement
PackInt4(i) ==
    LET hi == i \div 16777216
        lo == i - (hi * 16777216)
    IN  << IF hi < 0 THEN hi + 256 ELSE hi,
           lo \div 65536, (lo \div 256) % 256, lo % 256 >>

\* struct.unpack("!i", b)[0]
UnpackInt4(b) ==
    ((IF b[1] >= 128 THEN b[1] - 256 ELSE b[1]) * 16777216)
        + (b[2] * 65536) + (b[3] * 256) + b[4]

\* str.encode("utf-8") of one code point (the basic multilingual plane)
Utf8Char(cp) ==
    IF cp < 128 THEN <<cp>>
    ELSE IF cp < 2048 THEN <<192 + (cp \div 64), 128 + (cp % 64)>>
    ELSE <<224 + (cp \div 4096), 128 + ((cp \div 64) % 64), 128 + (cp % 64)>>

RECURSIVE Utf8Encode(_)
Utf8Encode(s) ==
    IF s = <<>> THEN <<>> ELSE Utf8Char(Head(s)) \o Utf8Encode(Tail(s))

\* a surrogate code point: str.encode raises UnicodeEncodeError
Utf8Encodable(s) == \A k \in 1..Len(s) : ~(s[k] >= 55296 /\ s[k] <= 57343)

\* bytes.decode("utf-8"): [ok, s]; malformed input is a UnicodeDecodeError
RECURSIVE Utf8Decode(_)
Utf8Decode(b) ==
    IF b = <<>> THEN [ok |-> TRUE, s |-> <<>>]
    ELSE LET c == b[1]
             n == IF c < 128 THEN 1
                  ELSE IF c >= 194 /\ c <= 223 THEN 2
                  ELSE IF c >= 224 /\ c <= 239 THEN 3
                  ELSE 0
             cont(k) == k <= Len(b) /\ b[k] >= 128 /\ b[k] <= 191
         IN  IF n = 0 \/ Len(b) < n \/ (n >= 2 /\ ~cont(2)) \/ (n = 3 /\ ~cont(3))
             THEN [ok |-> FALSE, s |-> <<>>]
             ELSE LET cp == IF n = 1 THEN c
                            ELSE IF n = 2 THEN ((c - 192) * 64) + (b[2] - 128)
                            ELSE ((c - 224) * 4096) + ((b[2] - 128) * 64) + (b[3] - 128)
                      rest == Utf8Decode(SubSeq(b, n + 1, Len(b)))
                  IN  IF (n = 3 /\ (cp < 2048 \/ (cp >= 55296 /\ cp <= 57343)))
                         \/ ~rest.ok
                      THEN [ok |-> FALSE, s |-> <<>>]
                      ELSE [ok |-> TRUE, s |-> <<cp>> \o rest.s]

----------------------------------------------------------------------------
(* Serializer.  A writer w is [ok, out, chunks]: out is what stream.write   *)
(* received so far, chunks the argument of each stream.write call in       *)
(* order, ok is FALSE once an exception was raised (nothing is written      *)
(* after it).                                                              *)

NewWriter == [ok |-> TRUE, out |-> <<>>, chunks |-> <<>>, raised |-> "none"]
Write(w, b) ==
    IF w.ok THEN [w EXCEPT !.out = @ \o b, !.chunks = Append(@, b)] ELSE w
\* raise SerializationError(...)
Raise(w) == [w EXCEPT !.ok = FALSE, !.raised = "SerializationError"]
\* struct.pack("!i", i) raises struct.error, which no SerializationError is
RaiseStruct(w) == [w EXCEPT !.ok = FALSE, !.raised = "struct.error"]

\* A Python int beyond the 32 bits of the integers here: low + wraps * 2^32
\* with low a 32-bit integer and wraps # 0; it is greater than
\* FOUR_BYTE_INT_MAX when wraps > 0 and less than -2^31 when wraps < 0
PyLong(wraps, low) == [t |-> "long", v |-> low, wraps |-> wraps]

_write_int4(w, i) ==
    IF ~w.ok THEN w
    ELSE IF i > FOUR_BYTE_INT_MAX THEN Raise(w)
    ELSE Write(w, PackInt4(i))

\* save_int(i) for such an int: self.stream.write(INT); _write_int4(i):
\* if i > FOUR_BYTE_INT_MAX: raise SerializationError; struct.pack("!i", i)
save_long(w, obj) ==
    IF ~w.ok THEN w
    ELSE IF obj.wraps > 0 THEN Raise(Write(w, <<INT>>))
    ELSE RaiseStruct(Write(w, <<INT>>))

_write_byte_sequence(w, b) == Write(_write_int4(w, Len(b)), b)

_write_unicode_string(w, s) ==
    IF ~w.ok THEN w
    ELSE IF ~Utf8Encodable(s) THEN Raise(w)
    ELSE _write_byte_sequence(w, Utf8Encode(s))

RECURSIVE _save(_, _), save_items(_, _), save_list_items(_, _, _), save_dict_items(_, _)

\* save_tuple's loop: for item in tup: self._save(item)
save_items(w, s) ==
    IF s = <<>> THEN w ELSE save_items(_save(w, Head(s)), Tail(s))

_write_setitem(w, key, value) == Write(_save(_save(w, key), value), <<SETITEM>>)

\* save_list's loop: for i, item in enumerate(L): self._write_setitem(i, item)
save_list_items(w, s, i) ==
    IF s = <<>> THEN w
    ELSE save_list_items(_write_setitem(w, PyInt(i), Head(s)), Tail(s), i + 1)

\* save_dict's loop: for key, value in d.items(): self._write_setitem(key, value)
save_dict_items(w, s) ==
    IF s = <<>> THEN w
    ELSE save_dict_items(_write_setitem(w, Head(s)[1], Head(s)[2]), Tail(s))

save_tuple(w, tup) ==
    _write_int4(Write(save_items(w, tup), <<BUILDTUPLE>>), Len(tup))

save_list(w, L) ==
    save_list_items(_write_int4(Write(w, <<NEWLIST>>), Len(L)), L, 0)

save_dict(w, d) == save_dict_items(Write(w, <<NEWDICT>>), d)

_save(w, obj) ==
    IF ~w.ok THEN w
    ELSE CASE obj.t = "none" -> Write(w, <<NONE>>)
           [] obj.t = "bool" -> Write(w, IF obj.v THEN <<TRUE_>> ELSE <<FALSE_>>)
           [] obj.t = "bytes" -> _write_byte_sequence(Write(w, <<BYTES>>), obj.v)
           [] obj.t = "str" -> _write_unicode_string(Write(w, <<PY3STRING>>), obj.v)
           [] obj.t = "int" -> _write_int4(Write(w, <<INT>>), obj.v)
           [] obj.t = "long" -> save_long(w, obj)
           [] obj.t = "float" -> Write(Write(w, <<FLOAT>>), obj.v)
           [] obj.t = "list" -> save_list(w, obj.v)
           [] obj.t = "dict" -> save_dict(w, obj.v)
           [] obj.t = "tuple" -> save_tuple(w, obj.v)
           [] OTHER -> Raise(w)     \* no dispatch entry: SerializationError

\* Serializer.save: [ok, out]
save(obj) == Write(_save(Write(NewWriter, <<VERSION_NUMBER>>), obj), <<STOP>>)

----------------------------------------------------------------------------
(* Unserializer.  A load outcome is [st, value, pos]: st is "ok",           *)
(* "UnserializationError", "EOFError" (the stream ended inside the frame)   *)
(* or "error" (any other exception the interpreter raises, e.g. TypeError,  *)
(* IndexError, UnicodeDecodeError); pos is the number of bytes consumed.    *)

Outcome(st, value, pos) == [st |-> st, value |-> value, pos |-> pos]

\* key equality of Python dicts: True == 1 and False == 0
RECURSIVE KeyNorm(_)
KeyNorm(k) ==
    CASE k.t = "bool" -> PyInt(IF k.v THEN 1 ELSE 0)
      [] k.t = "tuple" -> PyTuple([i \in 1..Len(k.v) |-> KeyNorm(k.v[i])])
      [] OTHER -> k

\* d[key] = value on the pair sequence of a dict
DictSet(d, key, value) ==
    IF \E i \in 1..Len(d) : KeyNorm(d[i][1]) = KeyNorm(key)
    THEN [i \in 1..Len(d) |->
            IF KeyNorm(d[i][1]) = KeyNorm(key) THEN <<d[i][1], value>> ELSE d[i]]
    ELSE Append(d, <<key, value>>)

\* the index at which the slice stack[-length:] starts (1-based): Python
\* clamps the slice, and -0 is 0, so stack[-0:] is the whole stack
SliceStart(n, length) ==
    IF length = 0 THEN 1
    ELSE IF length > 0 THEN (IF length >= n THEN 1 ELSE n - length + 1)
    ELSE (IF -length >= n THEN n + 1 ELSE 1 - length)

\* load_buildtuple: tup = tuple(self.stack[-length:]); del self.stack[-length:];
\* self.stack.append(tup)
load_buildtuple(stack, length) ==
    LET from == SliceStart(Len(stack), length)
    IN  Append(SubSeq(stack, 1, from - 1),
               PyTuple(SubSeq(stack, from, Len(stack))))

\* load_setitem after its length check: [ok, stack]
load_setitem(stack) ==
    LET n == Len(stack)
        value == stack[n]
        key == stack[n - 1]
        target == stack[n - 2]
        below == SubSeq(stack, 1, n - 3)
        len == Len(target.v)
    IN  CASE target.t = "list" /\ key.t = "int" /\ key.v >= -len /\ key.v < len ->
               [ok |-> TRUE,
                stack |-> Append(below,
                    PyList([target.v EXCEPT
                              ![IF key.v < 0 THEN len + key.v + 1 ELSE key.v + 1] = value]))]
          [] target.t = "dict" /\ Hashable(key) ->
               [ok |-> TRUE, stack |-> Append(below, PyDict(DictSet(target.v, key, value)))]
          [] OTHER -> [ok |-> FALSE, stack |-> stack]

\* self.stream.read(n) can return n bytes starting after position pos
CanRead(stream, pos, n) == pos + n <= Len(stream)
\* _read_int4 at the bytes after position pos
_read_int4(stream, pos) == UnpackInt4(SubSeq(stream, pos + 1, pos + 4))

RECURSIVE load_loop(_, _, _)
\* the opcode loop of Unserializer.load; pos bytes of stream are consumed
load_loop(stream, pos, stack) ==
    IF ~CanRead(stream, pos, 1) THEN Outcome("EOFError", PyNone, pos)
    ELSE LET opcode == stream[pos + 1]
             p == pos + 1
         IN
         CASE opcode = NONE -> load_loop(stream, p, Append(stack, PyNone))
           [] opcode = TRUE_ -> load_loop(stream, p, Append(stack, PyBool(TRUE)))
           [] opcode = FALSE_ -> load_loop(stream, p, Append(stack, PyBool(FALSE)))
           [] opcode = INT ->
                IF ~CanRead(stream, p, 4) THEN Outcome("EOFError", PyNone, p)
                ELSE load_loop(stream, p + 4, Append(stack, PyInt(_read_int4(stream, p))))
           [] opcode = FLOAT ->
                IF ~CanRead(stream, p, FLOAT_FORMAT_SIZE) THEN Outcome("EOFError", PyNone, p)
                ELSE load_loop(stream, p + FLOAT_FORMAT_SIZE,
                        Append(stack, [t |-> "float",
                                       v |-> SubSeq(stream, p + 1, p + FLOAT_FORMAT_SIZE)]))
           [] opcode \in {BYTES, PY2STRING, PY3STRING, UNICODE} ->
                IF ~CanRead(stream, p, 4) THEN Outcome("EOFError", PyNone, p)
                ELSE LET length == _read_int4(stream, p)
                         as_bytes == SubSeq(stream, p + 5, p + 4 + length)
                     IN  IF length < 0 THEN Outcome("error", PyNone, p + 4)
                         ELSE IF ~CanRead(stream, p + 4, length)
                         THEN Outcome("EOFError", PyNone, p + 4)
                         ELSE IF opcode \in {BYTES, PY2STRING}
                         THEN load_loop(stream, p + 4 + length,
                                        Append(stack, PyBytes(as_bytes)))
                         ELSE LET dec == Utf8Decode(as_bytes)
                              IN  IF ~dec.ok THEN Outcome("error", PyNone, p + 4 + length)
                                  ELSE load_loop(stream, p + 4 + length,
                                                 Append(stack, PyStr(dec.s)))
           [] opcode = NEWLIST ->
                IF ~CanRead(stream, p, 4) THEN Outcome("EOFError", PyNone, p)
                ELSE LET length == _read_int4(stream, p)
                     IN  load_loop(stream, p + 4,
                            Append(stack, PyList([i \in 1..length |-> PyNone])))
           [] opcode = SETITEM ->
                IF Len(stack) < 3 THEN Outcome("UnserializationError", PyNone, p)
                ELSE LET r == load_setitem(stack)
                     IN  IF r.ok THEN load_loop(stream, p, r.stack)
                         ELSE Outcome("error", PyNone, p)
           [] opcode = NEWDICT -> load_loop(stream, p, Append(stack, PyDict(<<>>)))
           [] opcode = BUILDTUPLE ->
                IF ~CanRead(stream, p, 4) THEN Outcome("EOFError", PyNone, p)
                ELSE load_loop(stream, p + 4,
                               load_buildtuple(stack, _read_int4(stream, p)))
           [] opcode = STOP ->
                IF Len(stack) # 1 THEN Outcome("UnserializationError", PyNone, p)
                ELSE Outcome("ok", stack[1], p)
           [] OTHER -> Outcome("UnserializationError", PyNone, p)

load_unversioned(stream) ==
    IF ~CanRead(stream, 0, 1) THEN Outcome("EOFError", PyNone, 0)
    ELSE load_loop(stream, 1, <<>>)
\* Unserializer.load on the bytes of stream, from its start
load(stream) ==
    IF ~CanRead(stream, 0, 1) THEN Outcome("EOFError", PyNone, 0)
    ELSE IF stream[1] # VERSION_NUMBER THEN Outcome("UnserializationError", PyNone, 1)
    ELSE load_loop(stream, 1, <<>>)


----------------------------------------------------------------------------
(* Message framing *)

\* msgtype of the Message subclasses, in the order of _setupmessages' list
CHANNEL_OPEN == 0
CHANNEL_NEW == 1
CHANNEL_DATA == 2
CHANNEL_CLOSE == 3
CHANNEL_CLOSE_ERROR == 4
CHANNEL_LAST_MESSAGE == 5
MsgTypes == CHANNEL_OPEN..CHANNEL_LAST_MESSAGE

Message(msgtype, channelid, data) ==
    [msgtype |-> msgtype, channelid |-> channelid, data |-> data]
NoMsg == Message(-1, PyInt(0), PyNone)

\* Message.writeto: ser.save((self.msgtype, self.channelid, self.data))
writeto(msg) ==
    save(PyTuple(<<PyInt(msg.msgtype), msg.channelid, msg.data>>))

\* what "msgtype, senderid, data = x" iterates over; <<>> flags a value
\* that is not iterable
Unpackable(x) ==
    CASE x.t \in {"tuple", "list"} -> x.v
      [] x.t = "bytes" -> [i \in 1..Len(x.v) |-> PyInt(x.v[i])]
      [] x.t = "str" -> [i \in 1..Len(x.v) |-> PyStr(<<x.v[i]>>)]
      [] x.t = "dict" -> [i \in 1..Len(x.v) |-> x.v[i][1]]
      [] OTHER -> <<>>

\* Message.readfrom: [st, msg, pos]; st is load's, or "error" when the
\* unpacking of the loaded value or the lookup in Message._types raises
readfrom(stream) ==
    LET r == load(stream)
        parts == Unpackable(r.value)
    IN  IF r.st # "ok" THEN [st |-> r.st, msg |-> NoMsg, pos |-> r.pos]
        ELSE IF Len(parts) # 3 \/ KeyNorm(parts[1]).t # "int"
        THEN [st |-> "error", msg |-> NoMsg, pos |-> r.pos]
        ELSE IF KeyNorm(parts[1]).v \notin MsgTypes
        THEN [st |-> "error", msg |-> NoMsg, pos |-> r.pos]
        ELSE [st |-> "ok",
              msg |-> Message(KeyNorm(parts[1]).v, parts[2], parts[3]),
              pos |-> r.pos]

----------------------------------------------------------------------------
(* Two gateways connected by one transport.  Side "A" is the initiating    *)
(* gateway (channel ids from 1), side "B" the SlaveGateway it serves        *)
(* (channel ids from 2).                                                    *)

MaxOps == 3        \* API calls (remote_exec, newchannel, send, receive, ...) in one run
MaxNew == 3        \* of which calls that create channels (remote_exec, newchannel)

Sides == {"A", "B"}
Peer(g) == IF g = "A" THEN "B" ELSE "A"
\* ChannelFactory(gateway, startcount): BaseGateway's default _startcount is 2,
\* the initiating gateway's factory starts at ChannelFactory's default, 1
StartCount_same(g) == 1
StartCount(g) == IF g = "A" THEN 1 ELSE 2
IsSlave(g) == g = "B"
Threads == {1, 2}

ENDMARKER == [t |-> "ENDMARKER", v |-> 0]
NO_ENDMARKER_WANTED == [t |-> "NO_ENDMARKER_WANTED", v |-> 0]
NoError == PyNone
\* RemoteError(formatted)
RemoteError(formatted) == [t |-> "RemoteError", v |-> formatted]
\* a Channel object as an item of a queue or an argument of send()
ChanRef(o) == [t |-> "chan", v |-> o]
\* an exception receive() raised, as an entry of a channel's log of results
Raised(name) == [t |-> "raise", v |-> name]
\* how an API call ended: the exception it raised, or "none"
Ended(call, name) == [call |-> call, raised |-> name]
\* an instance of a class the Serializer has no dispatch entry for
PyObject == [t |-> "object", v |-> 0]

\* the endmarker user code passes to setcallback, the error text it passes
\* to close, the source it passes to remote_exec
UserEndmarker == PyStr(<<69>>)
UserError == PyStr(<<98, 111, 111, 109>>)
UserSource == PyStr(<<112>>)
ChanIds == 1..(2 * MaxOps + 2)

\* association lists (a dict in insertion order)
Has(a, k) == \E i \in 1..Len(a) : a[i][1] = k
Get(a, k) == a[CHOOSE i \in 1..Len(a) : a[i][1] = k][2]
Put(a, k, x) ==
    IF Has(a, k) THEN [i \in 1..Len(a) |-> IF a[i][1] = k THEN <<k, x>> ELSE a[i]]
    ELSE Append(a, <<k, x>>)
Del(a, k) == SelectSeq(a, LAMBDA e : e[1] # k)
Keys(a) == [i \in 1..Len(a) |-> a[i][1]]

\* Channel.__init__ (with the bookkeeping the properties read: minted is
\* whether new() allocated the id, cbk the callback setcallback took and
\* whether it put it into _callbacks,
\* enq every put on _items, got every result of receive(), rerr the
\* RemoteError a received CHANNEL_CLOSE_ERROR closed the channel with,
\* deleted whether the object is gone: its last reference was dropped, and
\* dlog the number of callback calls its side had made by then)
Channel(g, id, minted) ==
    [side |-> g, id |-> id, q |-> <<>>, noitems |-> FALSE,
     closed |-> FALSE, rclosed |-> FALSE, errs |-> <<>>,
     minted |-> minted,
     cbk |-> [cb |-> 0, endmarker |-> NO_ENDMARKER_WANTED, installed |-> FALSE],
     enq |-> <<>>, got |-> <<>>, rerr |-> NoError, deleted |-> FALSE,
     dlog |-> 0]

\* The part of the state the methods of one side's factory and channels
\* work on: F.out collects what they hand to io.write
Factory(g) ==
    [chan |-> chan, channels |-> channels[g], callbacks |-> callbacks[g],
     cblog |-> cblog[g], count |-> count[g], execqueue |-> execqueue, out |-> <<>>]

\* the writes of F become the next state, and the receiver of side g has
\* read n bytes of what the peer wrote; io.write after close_write raises
\* and BaseGateway._send swallows the exception
CommitRead(g, F, n) ==
    /\ chan' = F.chan
    /\ channels' = [channels EXCEPT ![g] = F.channels]
    /\ callbacks' = [callbacks EXCEPT ![g] = F.callbacks]
    /\ cblog' = [cblog EXCEPT ![g] = F.cblog]
    /\ count' = [count EXCEPT ![g] = F.count]
    /\ execqueue' = F.execqueue
    /\ wire' = [wire EXCEPT ![g] = IF wclosed[g] THEN @ ELSE @ \o F.out,
                             ![Peer(g)] = SubSeq(@, n + 1, Len(@))]
Commit(g, F) == CommitRead(g, F, 0)

\* BaseGateway._send(msg), msg not None: msg.writeto(io); an exception of
\* writeto is traced and swallowed, what was written before it stays written
_send(F, msg) == [F EXCEPT !.out = @ \o writeto(msg).out]

QueuePut_front(F, o, x) ==
    [F EXCEPT !.chan[o].q = <<x>> \o @, !.chan[o].enq = Append(@, x)]
\* queue.put(x) on the queue of channel object o
QueuePut(F, o, x) ==
    [F EXCEPT !.chan[o].q = Append(@, x), !.chan[o].enq = Append(@, x)]

\* callback(arg)
Call(F, cb, arg) == [F EXCEPT !.cblog = Append(@, [cb |-> cb, arg |-> arg])]

\* ChannelFactory.new(id) past the finished check; id = 0 stands for None
new(F, g, id) ==
    LET theid == IF id = 0 THEN F.count ELSE id
        o == Len(F.chan) + 1
    IN  [F EXCEPT !.count = IF id = 0 THEN @ + 2 ELSE @,
                  !.chan = Append(@, Channel(g, theid, id = 0)),
                  !.channels = Put(@, theid, o)]

\* ChannelFactory._no_longer_opened(id)
_no_longer_opened(F, id) ==
    LET F1 == [F EXCEPT !.channels = Del(@, id)]
    IN  IF ~Has(F.callbacks, id) THEN F1
        ELSE LET c == Get(F.callbacks, id)
                 F2 == [F1 EXCEPT !.callbacks = Del(@, id)]
             IN  IF c.endmarker # NO_ENDMARKER_WANTED
                 THEN Call(F2, c.cb, c.endmarker)
                 ELSE F2

_local_close_closes(F, id, remoteerror, sendonly) ==
    IF ~Has(F.channels, id) THEN _no_longer_opened(F, id)
    ELSE LET o == Get(F.channels, id)
             F1 == [F EXCEPT !.chan[o].closed = TRUE, !.chan[o].rclosed = TRUE]
             F2 == IF F1.chan[o].noitems THEN F1 ELSE QueuePut(F1, o, ENDMARKER)
         IN  _no_longer_opened(F2, id)
\* ChannelFactory._local_close(id, remoteerror, sendonly)
_local_close(F, id, remoteerror, sendonly) ==
    IF ~Has(F.channels, id) THEN _no_longer_opened(F, id)
    ELSE LET o == Get(F.channels, id)
             F1 == [F EXCEPT
                      !.chan[o].errs = IF remoteerror # NoError
                                       THEN Append(@, remoteerror) ELSE @,
                      !.chan[o].rerr = IF remoteerror # NoError THEN remoteerror ELSE @,
                      !.chan[o].closed = IF sendonly THEN @ ELSE TRUE,
                      !.chan[o].rclosed = TRUE]
             F2 == IF F1.chan[o].noitems THEN F1 ELSE QueuePut(F1, o, ENDMARKER)
         IN  _no_longer_opened(F2, id)

_local_receive_live(F, id, data) ==
    IF ~Has(F.channels, id) THEN F
    ELSE IF Has(F.callbacks, id) THEN Call(F, Get(F.callbacks, id).cb, data)
    ELSE IF ~F.chan[Get(F.channels, id)].noitems
    THEN QueuePut(F, Get(F.channels, id), data)
    ELSE F
\* ChannelFactory._local_receive(id, data)
_local_receive(F, id, data) ==
    IF Has(F.callbacks, id) THEN Call(F, Get(F.callbacks, id).cb, data)
    ELSE IF Has(F.channels, id) /\ ~F.chan[Get(F.channels, id)].noitems
    THEN QueuePut(F, Get(F.channels, id), data)
    ELSE F

\* Channel.close(error) run in one piece, as the receiver thread runs it
\* from BaseGateway._local_schedulexec
close(F, o, error) ==
    IF F.chan[o].closed THEN F
    ELSE LET id == F.chan[o].id
             F1 == _send(F, IF error # NoError
                            THEN Message(CHANNEL_CLOSE_ERROR, PyInt(id), error)
                            ELSE Message(CHANNEL_CLOSE, PyInt(id), PyStr(<<>>)))
             F2 == [F1 EXCEPT !.chan[o].closed = TRUE, !.chan[o].rclosed = TRUE]
             F3 == IF F2.chan[o].noitems THEN F2 ELSE QueuePut(F2, o, ENDMARKER)
         IN  _no_longer_opened(F3, id)

\* the text "execution disallowed"
ExecutionDisallowed ==
    PyStr(<<101, 120, 101, 99, 117, 116, 105, 111, 110, 32,
            100, 105, 115, 97, 108, 108, 111, 119, 101, 100>>)
_local_schedulexec_serving(F, g, o, sourcetask) ==
    [F EXCEPT !.execqueue = Append(@, <<o, sourcetask>>)]
\* BaseGateway._local_schedulexec / SlaveGateway._local_schedulexec
_local_schedulexec(F, g, o, sourcetask) ==
    IF IsSlave(g) THEN [F EXCEPT !.execqueue = Append(@, <<o, sourcetask>>)]
    ELSE close(F, o, ExecutionDisallowed)

\* msg.received(gateway) raises: Channel.__init__ asserts isinstance(id, int),
\* and a dict lookup with an unhashable id is a TypeError
ReceivedRaises(msg) ==
    IF msg.msgtype = CHANNEL_OPEN THEN msg.channelid.t # "int"
    ELSE IF msg.msgtype = CHANNEL_NEW
    THEN msg.data.t # "int" \/ ~Hashable(msg.channelid)
    ELSE ~Hashable(msg.channelid)

\* msg.received(gateway) of the six Message classes
received(F, g, msg) ==
    LET id == IF msg.channelid.t = "int" THEN msg.channelid.v ELSE 0
    IN  CASE msg.msgtype = CHANNEL_OPEN ->
               _local_schedulexec(new(F, g, id), g, Len(F.chan) + 1, msg.data)
          [] msg.msgtype = CHANNEL_NEW ->
               _local_receive(new(F, g, msg.data.v), id, ChanRef(Len(F.chan) + 1))
          [] msg.msgtype = CHANNEL_DATA -> _local_receive(F, id, msg.data)
          [] msg.msgtype = CHANNEL_CLOSE -> _local_close(F, id, NoError, FALSE)
          [] msg.msgtype = CHANNEL_CLOSE_ERROR ->
               _local_close(F, id, RemoteError(msg.data), FALSE)
          [] msg.msgtype = CHANNEL_LAST_MESSAGE -> _local_close(F, id, NoError, TRUE)

----------------------------------------------------------------------------
(* The initial state: two gateways just constructed, receivers started *)

\* Group.__init__ with no xspecs.  gws are the gateway objects there are:
\* [id, hasgroup (the _group attribute is set), popen (it has _popen),
\* unreg (its exit() unregisters it from its group), exitreq (exit() was
\* called on it while a member), texits (the exit() calls terminate made
\* on it), joined, waited, killed].  Of a terminate() call: tpc is where
\* it is, or its worker is, titer the gateways its first loop has left,
\* tj the index of the worker's for loop, tw the gateway the worker took
\* from the head of the joining list, kpc where the escalation loop is,
\* timeout whether a timeout was given, tmembers and texp the members at
\* its start and the joining set at expiry, truns the calls so far, rerun
\* whether it follows another terminate() with no call in between
NewGroup ==
    [gws |-> <<>>, activegateways |-> {}, id2gateway |-> <<>>,
     autoidcounter |-> 1, gateways_to_join |-> <<>>,
     tpc |-> "idle", titer |-> <<>>, tmembers |-> {}, tj |-> 1, raised |-> "none",
     tw |-> 0, kpc |-> "none", timeout |-> FALSE, texp |-> {}, truns |-> 0,
     rerun |-> FALSE]

\* MultiChannel before its constructor ran (made is FALSE), with the
\* bookkeeping of the call in progress or ended last: call its name, item
\* the argument of send_each, i the position of the loop over _channels,
\* l the list receive_each builds, first the exception waitclose keeps and
\* firsti the position of the member that raised it, calls the calls made
\* on member channels, [o, raised], in order, ret what the call returned,
\* raised the exception that left it or "none"
NewMulti ==
    [channels |-> <<>>, made |-> FALSE, pc |-> "idle", call |-> "none",
     item |-> PyNone, withchannel |-> FALSE, i |-> 1, l |-> <<>>,
     first |-> NoError, firsti |-> 0, calls |-> <<>>, ret |-> PyNone,
     raised |-> "none"]

Idle == [pc |-> "idle", o |-> 0, cb |-> 0,
         endmarker |-> NO_ENDMARKER_WANTED, error |-> NoError, chunks |-> <<>>]

MainInit ==
    /\ chan = <<>>
    /\ channels = [g \in Sides |-> <<>>]
    /\ callbacks = [g \in Sides |-> <<>>]
    /\ count = [g \in Sides |-> StartCount(g)]
    /\ finished = [g \in Sides |-> FALSE]
    /\ wire = [g \in Sides |-> <<>>]
    /\ wclosed = [g \in Sides |-> FALSE]
    /\ receivelock = [g \in Sides |-> 0]
    /\ rpc = [g \in Sides |-> "recv"]
    /\ rloc = [g \in Sides |-> <<>>]
    /\ execqueue = <<>>
    /\ th = [t \in Threads |-> Idle]
    /\ cblog = [g \in Sides |-> <<>>]
    /\ sentlog = [g \in Sides |-> [i \in ChanIds |-> <<>>]]
    /\ exc = Ended("none", "none")
    /\ ops = 0
    /\ serve = [pc |-> "get", ran |-> <<>>]
    /\ group = NewGroup
    /\ multi = NewMulti

CodecIdle ==
    /\ cobj = PyNone
    /\ cstream = <<>>
    /\ cres = Outcome("none", PyNone, 0)
    /\ cmsg = NoMsg
    /\ cpc = "off"

Init == MainInit /\ CodecIdle /\ limit = [calls |-> MaxOps, new |-> MaxNew]

Objects == 1..Len(chan)
Minted == {o \in Objects : chan[o].minted}
\* an API call may start
MayCall == ops < limit.calls
\* the user thread a blocking or multi-step call runs on: the first idle one
FreeThread(t) == th[t].pc = "idle" /\ \A u \in Threads : u < t => th[u].pc # "idle"
\* gateway._receivelock is free for the receiver thread of side g
LockFree(g) == receivelock[g] = 0

----------------------------------------------------------------------------
(* API calls that run in one step *)

\* Gateway.remote_exec(source): channel = self.newchannel();
\* self._send(Message.CHANNEL_OPEN(channel.id, source))
RemoteExec ==
    /\ MayCall /\ Cardinality(Minted) < limit.new
    /\ ops' = ops + 1
    /\ IF finished["A"]
       THEN /\ exc' = Ended("remote_exec", "IOError")
            /\ UNCHANGED <<chan, channels, callbacks, cblog, count, execqueue, wire>>
       ELSE /\ exc' = Ended("remote_exec", "none")
            /\ Commit("A", _send(new(Factory("A"), "A", 0),
                                 Message(CHANNEL_OPEN, PyInt(count["A"]), UserSource)))
    /\ UNCHANGED <<finished, wclosed, receivelock, rpc, rloc, th, sentlog, hvars>>

NewChannel_unchecked(g) ==
    /\ MayCall /\ Cardinality(Minted) < limit.new
    /\ ops' = ops + 1
    /\ exc' = Ended("newchannel", "none")
    /\ Commit(g, new(Factory(g), g, 0))
    /\ UNCHANGED <<finished, wclosed, receivelock, rpc, rloc, th, sentlog, hvars>>
\* BaseGateway.newchannel(): self._channelfactory.new()
NewChannel(g) ==
    /\ MayCall /\ Cardinality(Minted) < limit.new
    /\ ops' = ops + 1
    /\ IF finished[g]
       THEN /\ exc' = Ended("newchannel", "IOError")
            /\ UNCHANGED <<chan, channels, callbacks, cblog, count, execqueue, wire>>
       ELSE /\ exc' = Ended("newchannel", "none")
            /\ Commit(g, new(Factory(g), g, 0))
    /\ UNCHANGED <<finished, wclosed, receivelock, rpc, rloc, th, sentlog, hvars>>

\* what user code on the side of channel o can pass to o.send(): the codec
\* carries every integer alike, so the n-th call sends n, or it sends the
\* empty tuple, an object of a class of its own, or a channel of its side
Sendable(o) ==
    {PyInt(ops + 1), PyTuple(<<>>), PyObject}
        \cup {ChanRef(x) : x \in {y \in Objects : chan[y].side = chan[o].side}}

\* the Message Channel.send builds for item
SendMessage(o, item) ==
    IF item.t = "chan"
    THEN Message(CHANNEL_NEW, PyInt(chan[o].id), PyInt(chan[item.v].id))
    ELSE Message(CHANNEL_DATA, PyInt(chan[o].id), item)

\* Channel.send(item)
Send(o, item) ==
    /\ MayCall
    /\ ops' = ops + 1
    /\ IF chan[o].closed
       THEN /\ exc' = Ended("send", "IOError")
            /\ UNCHANGED <<chan, channels, callbacks, cblog, count, execqueue, wire, sentlog>>
       ELSE /\ exc' = Ended("send", "none")
            /\ Commit(chan[o].side, _send(Factory(chan[o].side), SendMessage(o, item)))
            /\ sentlog' = [sentlog EXCEPT ![chan[o].side][chan[o].id] = Append(@, item)]
    /\ UNCHANGED <<finished, wclosed, receivelock, rpc, rloc, th, hvars>>

\* Channel.waitclose() once _receiveclosed is set (it blocks until then)
WaitClose(o) ==
    /\ MayCall
    /\ chan[o].rclosed
    /\ ops' = ops + 1
    /\ exc' = Ended("waitclose", IF chan[o].errs # <<>> THEN "RemoteError" ELSE "none")
    /\ chan' = [chan EXCEPT ![o].errs = IF @ # <<>> THEN Tail(@) ELSE @]
    /\ UNCHANGED <<channels, callbacks, count, finished, wire, wclosed, receivelock,
                   rpc, rloc, execqueue, th, cblog, sentlog, hvars>>

WaitCloseTimeout_sets(o) ==
    /\ MayCall
    /\ ~chan[o].rclosed
    /\ ops' = ops + 1
    /\ exc' = Ended("waitclose", "IOError")
    /\ chan' = [chan EXCEPT ![o].rclosed = TRUE]
    /\ UNCHANGED <<channels, callbacks, count, finished, wire, wclosed, receivelock,
                   rpc, rloc, execqueue, th, cblog, sentlog, hvars>>
\* Channel.waitclose(timeout) when the timeout passes with _receiveclosed
\* not set: raise IOError("Timeout")
WaitCloseTimeout(o) ==
    /\ MayCall
    /\ ~chan[o].rclosed
    /\ ops' = ops + 1
    /\ exc' = Ended("waitclose", "IOError")
    /\ UNCHANGED <<chan, channels, callbacks, count, finished, wire, wclosed, receivelock,
                   rpc, rloc, execqueue, th, cblog, sentlog, hvars>>

\* Gateway.exit(): self._stopsend(), i.e. self._send(None): io.close_write()
Exit(g) ==
    /\ MayCall
    /\ ~wclosed[g]
    /\ ops' = ops + 1
    /\ exc' = Ended("exit", "none")
    /\ wclosed' = [wclosed EXCEPT ![g] = TRUE]
    /\ UNCHANGED <<chan, channels, callbacks, count, finished, wire, receivelock,
                   rpc, rloc, execqueue, th, cblog, sentlog, hvars>>

----------------------------------------------------------------------------
(* Channel.receive, Channel.setcallback and Channel.close on a user thread, *)
(* one step per access to state other threads access                        *)

Done(t) == th' = [th EXCEPT ![t] = Idle]
SideOf(t) == chan[th[t].o].side
FVars == <<chan, channels, callbacks, cblog, count, execqueue, wire>>

\* Channel.send(item) on user thread t up to the first stream.write of
\* Message.writeto: the closed test is made, the frame is still to be written
SendBegin(t, o, item) ==
    /\ MayCall /\ FreeThread(t)
    /\ ops' = ops + 1
    /\ IF chan[o].closed
       THEN exc' = Ended("send", "IOError") /\ UNCHANGED <<th, sentlog>>
       ELSE /\ exc' = exc
            /\ th' = [th EXCEPT ![t] = [Idle EXCEPT !.pc = "send_write", !.o = o,
                                           !.chunks = writeto(SendMessage(o, item)).chunks]]
            /\ sentlog' = [sentlog EXCEPT ![chan[o].side][chan[o].id] = Append(@, item)]
    /\ UNCHANGED <<FVars, finished, wclosed, receivelock, rpc, rloc, hvars>>

\* one stream.write(data) of the frame: io.write hands data to the transport
\* (sendall, or write and flush); no lock is held across the writes of a
\* frame.  After close_write io.write raises; _send swallows the exception
\* and send() returns
SendWrite(t) ==
    /\ th[t].pc = "send_write"
    /\ IF wclosed[SideOf(t)]
       THEN Done(t) /\ exc' = Ended("send", "none") /\ wire' = wire
       ELSE /\ wire' = [wire EXCEPT ![SideOf(t)] = @ \o Head(th[t].chunks)]
            /\ IF Len(th[t].chunks) = 1
               THEN Done(t) /\ exc' = Ended("send", "none")
               ELSE th' = [th EXCEPT ![t].chunks = Tail(@)] /\ exc' = exc
    /\ UNCHANGED <<chan, channels, callbacks, cblog, count, execqueue, finished, wclosed,
                   receivelock, rpc, rloc, sentlog, ops, hvars>>

Receive_unchecked(t, o) ==
    /\ MayCall /\ FreeThread(t)
    /\ ops' = ops + 1
    /\ exc' = exc /\ th' = [th EXCEPT ![t] = [Idle EXCEPT !.pc = "recv_get", !.o = o]]
    /\ UNCHANGED <<FVars, finished, wclosed, receivelock, rpc, rloc, sentlog, hvars>>
\* receive(): queue = self._items; if queue is None: raise IOError
Receive(t, o) ==
    /\ MayCall /\ FreeThread(t)
    /\ ops' = ops + 1
    /\ IF chan[o].noitems
       THEN exc' = Ended("receive", "IOError") /\ UNCHANGED th
       ELSE exc' = exc /\ th' = [th EXCEPT ![t] = [Idle EXCEPT !.pc = "recv_get", !.o = o]]
    /\ UNCHANGED <<FVars, finished, wclosed, receivelock, rpc, rloc, sentlog, hvars>>

\* x = queue.get(), blocking while the queue is empty; a data item is returned
ReceiveGet(t) ==
    /\ th[t].pc = "recv_get"
    /\ chan[th[t].o].q # <<>>
    /\ LET o == th[t].o
           x == Head(chan[o].q)
       IN  IF x = ENDMARKER
           THEN /\ chan' = [chan EXCEPT ![o].q = Tail(@)]
                /\ th' = [th EXCEPT ![t].pc = "recv_put"]
                /\ exc' = exc
           ELSE /\ chan' = [chan EXCEPT ![o].q = Tail(@), ![o].got = Append(@, x)]
                /\ Done(t)
                /\ exc' = Ended("receive", "none")
    /\ UNCHANGED <<channels, callbacks, cblog, count, execqueue, wire, finished, wclosed,
                   receivelock, rpc, rloc, sentlog, ops, hvars>>

\* x is ENDMARKER: queue.put(x); raise self._getremoteerror() or EOFError()
ReceivePut(t) ==
    /\ th[t].pc = "recv_put"
    /\ LET o == th[t].o
           name == IF chan[o].errs # <<>> THEN "RemoteError" ELSE "EOFError"
       IN  /\ chan' = [chan EXCEPT ![o].q = Append(@, ENDMARKER),
                                   ![o].errs = IF @ # <<>> THEN Tail(@) ELSE @,
                                   ![o].got = Append(@, Raised(name))]
           /\ exc' = Ended("receive", name)
    /\ Done(t)
    /\ UNCHANGED <<channels, callbacks, cblog, count, execqueue, wire, finished, wclosed,
                   receivelock, rpc, rloc, sentlog, ops, hvars>>

\* setcallback(callback, endmarker): _receivelock.acquire(); if self._items is
\* None: raise IOError; items = self._items; self._items = None
SetCallback_nolock(t, o, endmarker) ==
    /\ MayCall /\ FreeThread(t)
    /\ ops' = ops + 1
    /\ IF chan[o].noitems
       THEN exc' = Ended("setcallback", "IOError") /\ UNCHANGED <<th, chan>>
       ELSE /\ exc' = exc
            /\ chan' = [chan EXCEPT ![o].noitems = TRUE,
                                    ![o].cbk = [cb |-> ops + 1, endmarker |-> endmarker,
                                                installed |-> FALSE]]
            /\ th' = [th EXCEPT ![t] = [Idle EXCEPT !.pc = "scb_get", !.o = o,
                                           !.cb = ops + 1, !.endmarker = endmarker]]
    /\ UNCHANGED <<channels, callbacks, cblog, count, execqueue, wire, finished, wclosed,
                   receivelock, rpc, rloc, sentlog, hvars>>
SetCallback(t, o, endmarker) ==
    /\ MayCall /\ FreeThread(t)
    /\ receivelock[chan[o].side] = 0
    /\ ops' = ops + 1
    /\ IF chan[o].noitems
       THEN exc' = Ended("setcallback", "IOError") /\ UNCHANGED <<th, chan, receivelock>>
       ELSE /\ exc' = exc
            /\ chan' = [chan EXCEPT ![o].noitems = TRUE,
                                    ![o].cbk = [cb |-> ops + 1, endmarker |-> endmarker,
                                                installed |-> FALSE]]
            /\ th' = [th EXCEPT ![t] = [Idle EXCEPT !.pc = "scb_get", !.o = o,
                                           !.cb = ops + 1, !.endmarker = endmarker]]
            /\ receivelock' = [receivelock EXCEPT ![chan[o].side] = t]
    /\ UNCHANGED <<channels, callbacks, cblog, count, execqueue, wire, finished, wclosed,
                   rpc, rloc, sentlog, hvars>>

SetCallbackGet_once(t) ==
    /\ th[t].pc = "scb_get"
    /\ LET o == th[t].o
           q == chan[o].q
       IN  /\ chan' = [chan EXCEPT ![o].q = IF q = <<>> THEN @ ELSE Tail(@)]
           /\ cblog' = [cblog EXCEPT ![chan[o].side] =
                           IF q = <<>> THEN @
                           ELSE Append(@, [cb |-> th[t].cb, arg |-> Head(q)])]
           /\ th' = [th EXCEPT ![t].pc = "scb_install"]
    /\ UNCHANGED <<channels, callbacks, count, execqueue, wire, finished, wclosed,
                   receivelock, exc, rpc, rloc, sentlog, ops, hvars>>
\* one turn of setcallback's loop: olditem = items.get(block=False)
SetCallbackGet(t) ==
    /\ th[t].pc = "scb_get"
    /\ LET o == th[t].o
           g == chan[o].side
           q == chan[o].q
           release == receivelock' = [receivelock EXCEPT ![g] = 0]
       IN  IF q = <<>>
           THEN \* queue.Empty: install the callback only if still open
                /\ IF ~(chan[o].closed \/ chan[o].rclosed)
                   THEN /\ th' = [th EXCEPT ![t].pc = "scb_install"]
                        /\ UNCHANGED <<receivelock, exc>>
                   ELSE Done(t) /\ release /\ exc' = Ended("setcallback", "none")
                /\ UNCHANGED <<chan, cblog>>
           ELSE IF Head(q) = ENDMARKER
           THEN \* items.put(olditem); callback(endmarker) if one is wanted
                /\ chan' = [chan EXCEPT ![o].q = Append(Tail(@), ENDMARKER)]
                /\ cblog' = [cblog EXCEPT ![g] =
                                IF th[t].endmarker # NO_ENDMARKER_WANTED
                                THEN Append(@, [cb |-> th[t].cb, arg |-> th[t].endmarker])
                                ELSE @]
                /\ Done(t) /\ release /\ exc' = Ended("setcallback", "none")
           ELSE \* callback(olditem)
                /\ chan' = [chan EXCEPT ![o].q = Tail(@)]
                /\ cblog' = [cblog EXCEPT ![g] =
                                Append(@, [cb |-> th[t].cb, arg |-> Head(q)])]
                /\ UNCHANGED <<th, receivelock, exc>>
    /\ UNCHANGED <<channels, callbacks, count, execqueue, wire, finished, wclosed,
                   rpc, rloc, sentlog, ops, hvars>>

\* _callbacks[self.id] = (callback, endmarker); _receivelock.release()
SetCallbackInstall(t) ==
    /\ th[t].pc = "scb_install"
    /\ callbacks' = [callbacks EXCEPT ![SideOf(t)] =
                        Put(@, chan[th[t].o].id,
                            [cb |-> th[t].cb, endmarker |-> th[t].endmarker])]
    /\ chan' = [chan EXCEPT ![th[t].o].cbk.installed = TRUE]
    /\ receivelock' = [receivelock EXCEPT ![SideOf(t)] = 0]
    /\ Done(t)
    /\ exc' = Ended("setcallback", "none")
    /\ UNCHANGED <<channels, cblog, count, execqueue, wire, finished, wclosed,
                   rpc, rloc, sentlog, ops, hvars>>

\* close(error): if not self._closed: put(CHANNEL_CLOSE or CHANNEL_CLOSE_ERROR)
Close(t, o, error) ==
    /\ MayCall /\ FreeThread(t)
    /\ ops' = ops + 1
    /\ IF chan[o].closed
       THEN exc' = Ended("close", "none") /\ UNCHANGED <<th, FVars>>
       ELSE /\ exc' = exc
            /\ th' = [th EXCEPT ![t] = [Idle EXCEPT !.pc = "close_flags", !.o = o,
                                           !.error = error]]
            /\ Commit(chan[o].side,
                      _send(Factory(chan[o].side),
                            IF error # NoError
                            THEN Message(CHANNEL_CLOSE_ERROR, PyInt(chan[o].id), error)
                            ELSE Message(CHANNEL_CLOSE, PyInt(chan[o].id), PyStr(<<>>))))
    /\ UNCHANGED <<finished, wclosed, receivelock, rpc, rloc, sentlog, hvars>>

\* self._closed = True; self._receiveclosed.set()
CloseFlags(t) ==
    /\ th[t].pc = "close_flags"
    /\ chan' = [chan EXCEPT ![th[t].o].closed = TRUE, ![th[t].o].rclosed = TRUE]
    /\ th' = [th EXCEPT ![t].pc = "close_readq"]
    /\ UNCHANGED <<channels, callbacks, cblog, count, execqueue, wire, finished, wclosed,
                   receivelock, rpc, rloc, sentlog, exc, ops, hvars>>

\* queue = self._items
CloseReadq(t) ==
    /\ th[t].pc = "close_readq"
    /\ th' = [th EXCEPT ![t].pc = IF chan[th[t].o].noitems THEN "close_nlo" ELSE "close_put"]
    /\ UNCHANGED <<FVars, finished, wclosed, receivelock, rpc, rloc, sentlog, exc, ops, hvars>>

\* queue is not None: queue.put(ENDMARKER)
ClosePut(t) ==
    /\ th[t].pc = "close_put"
    /\ chan' = [chan EXCEPT ![th[t].o].q = Append(@, ENDMARKER),
                            ![th[t].o].enq = Append(@, ENDMARKER)]
    /\ th' = [th EXCEPT ![t].pc = "close_nlo"]
    /\ UNCHANGED <<channels, callbacks, cblog, count, execqueue, wire, finished, wclosed,
                   receivelock, rpc, rloc, sentlog, exc, ops, hvars>>

\* self.gateway._channelfactory._no_longer_opened(self.id)
CloseNoLongerOpened(t) ==
    /\ th[t].pc = "close_nlo"
    /\ Commit(SideOf(t), _no_longer_opened(Factory(SideOf(t)), chan[th[t].o].id))
    /\ Done(t)
    /\ exc' = Ended("close", "none")
    /\ UNCHANGED <<finished, wclosed, receivelock, rpc, rloc, sentlog, ops, hvars>>

----------------------------------------------------------------------------
(* The end of a Channel object *)

\* the object is there
Live(o) == ~chan[o].deleted
\* user code holds the only references to channel object o and is in no
\* call on it: no queue, no exec queue and no MultiChannel refers to it
LastReference(o) ==
    /\ Live(o)
    /\ \A t \in Threads : th[t].pc = "idle" \/ th[t].o # o
    /\ \A x \in Objects : \A i \in 1..Len(chan[x].q) : chan[x].q[i] # ChanRef(o)
    /\ \A i \in 1..Len(execqueue) : execqueue[i][1] # o
    /\ \A i \in 1..Len(multi.channels) : multi.channels[i] # o

__del___silent(F, o) ==
    [F EXCEPT !.chan[o].deleted = TRUE, !.chan[o].dlog = Len(F.cblog),
              !.channels = SelectSeq(@, LAMBDA e : e[2] # o)]
\* Channel.__del__, and the entry of the WeakValueDictionary _channels
\* that goes with the object
__del__(F, o) ==
    LET F1 == [F EXCEPT !.chan[o].deleted = TRUE, !.chan[o].dlog = Len(F.cblog),
                        !.channels = SelectSeq(@, LAMBDA e : e[2] # o)]
        id == PyInt(F.chan[o].id)
    IN  IF F.chan[o].closed \/ F.chan[o].rclosed THEN F1
        ELSE IF F.chan[o].noitems
        THEN _send(F1, Message(CHANNEL_LAST_MESSAGE, id, PyStr(<<>>)))
        ELSE _send(F1, Message(CHANNEL_CLOSE, id, PyStr(<<>>)))

\* user code drops its last reference to channel object o
Drop(o) ==
    /\ LastReference(o)
    /\ Commit(chan[o].side, __del__(Factory(chan[o].side), o))
    /\ UNCHANGED <<finished, wclosed, receivelock, rpc, rloc, th, sentlog, exc, ops, hvars>>

----------------------------------------------------------------------------
(* BaseGateway._thread_receiver *)

\* the loop body when a message arrives whole: msg = Message.readfrom(io);
\* _receivelock.acquire(); msg.received(self); _receivelock.release()
ReceiverDispatch(g) ==
    /\ rpc[g] = "recv"
    /\ LockFree(g)
    /\ LET r == readfrom(wire[Peer(g)])
       IN  /\ r.st = "ok"
           /\ ~ReceivedRaises(r.msg)
           /\ CommitRead(g, received(Factory(g), g, r.msg), r.pos)
    /\ UNCHANGED <<finished, wclosed, receivelock, rpc, rloc, th, sentlog, exc, ops, hvars>>

\* the loop ends: readfrom or received raised (a read past the end of the
\* stream blocks until the peer closes its write side, then it is EOFError);
\* finally: self._stopexec(); self._stopsend()
ReceiverBreak(g) ==
    /\ rpc[g] = "recv"
    /\ LET r == readfrom(wire[Peer(g)])
       IN  /\ IF r.st = "ok" THEN LockFree(g) /\ ReceivedRaises(r.msg)
              ELSE IF r.st = "EOFError" THEN wclosed[Peer(g)]
              ELSE TRUE
           /\ wire' = [wire EXCEPT ![Peer(g)] =
                         IF r.st = "EOFError" THEN <<>> ELSE SubSeq(@, r.pos + 1, Len(@))]
    /\ execqueue' = IF IsSlave(g) THEN Append(execqueue, <<0, PyNone>>) ELSE execqueue
    /\ wclosed' = [wclosed EXCEPT ![g] = TRUE]
    /\ rpc' = [rpc EXCEPT ![g] = "finishing"]
    /\ UNCHANGED <<chan, channels, callbacks, cblog, count, finished,
                   receivelock, rloc, th, sentlog, exc, ops, hvars>>

FinishedReceiving_early(g) ==
    /\ rpc[g] \in {"recv", "finishing"}
    /\ finished' = [finished EXCEPT ![g] = TRUE]
    /\ rloc' = [rloc EXCEPT ![g] = Keys(channels[g])]
    /\ rpc' = [rpc EXCEPT ![g] = "fin_channels"]
    /\ UNCHANGED <<FVars, wclosed, receivelock, th, sentlog, exc, ops, hvars>>
\* _finished_receiving: self.finished = True; for id in list(self._channels)
FinishedReceiving(g) ==
    /\ rpc[g] = "finishing"
    /\ finished' = [finished EXCEPT ![g] = TRUE]
    /\ rloc' = [rloc EXCEPT ![g] = Keys(channels[g])]
    /\ rpc' = [rpc EXCEPT ![g] = "fin_channels"]
    /\ UNCHANGED <<FVars, wclosed, receivelock, th, sentlog, exc, ops, hvars>>

\* one turn of the first loop: self._local_close(id, sendonly=True)
FinishedChannel(g) ==
    /\ rpc[g] = "fin_channels"
    /\ rloc[g] # <<>>
    /\ Commit(g, _local_close(Factory(g), Head(rloc[g]), NoError, TRUE))
    /\ rloc' = [rloc EXCEPT ![g] = Tail(@)]
    /\ UNCHANGED <<finished, wclosed, receivelock, rpc, th, sentlog, exc, ops, hvars>>

\* the first loop is over: for id in list(self._callbacks)
FinishedListCallbacks(g) ==
    /\ rpc[g] = "fin_channels"
    /\ rloc[g] = <<>>
    /\ rloc' = [rloc EXCEPT ![g] = Keys(callbacks[g])]
    /\ rpc' = [rpc EXCEPT ![g] = "fin_callbacks"]
    /\ UNCHANGED <<FVars, finished, wclosed, receivelock, th, sentlog, exc, ops, hvars>>

\* one turn of the second loop: self._no_longer_opened(id)
FinishedCallback(g) ==
    /\ rpc[g] = "fin_callbacks"
    /\ rloc[g] # <<>>
    /\ Commit(g, _no_longer_opened(Factory(g), Head(rloc[g])))
    /\ rloc' = [rloc EXCEPT ![g] = Tail(@)]
    /\ UNCHANGED <<finished, wclosed, receivelock, rpc, th, sentlog, exc, ops, hvars>>

\* the second loop is over: the receiver thread ends
ReceiverDone(g) ==
    /\ rpc[g] = "fin_callbacks"
    /\ rloc[g] = <<>>
    /\ rpc' = [rpc EXCEPT ![g] = "done"]
    /\ UNCHANGED <<FVars, finished, wclosed, receivelock, rloc, th, sentlog, exc, ops, hvars>>

----------------------------------------------------------------------------

----------------------------------------------------------------------------
(* SlaveGateway.serve on side "B" *)

\* how the hosted source of a task ends: it runs to completion, raises an
\* ordinary exception, raises KeyboardInterrupt or SystemExit (sysex), or
\* raises gateway._StopExecLoop
TaskOutcomes == {"return", "raise", "sysex", "StopExecLoop"}
\* geterrortext(excinfo) of the exception a task raised
TaskErrorText == PyStr(<<69, 114, 114>>)

\* executetask(item): the try statement around do_exec
executetask(F, o, outcome) ==
    CASE outcome = "return" -> close(F, o, NoError)
      [] outcome = "raise" -> close(F, o, TaskErrorText)
      [] outcome = "StopExecLoop" -> close(F, o, NoError)
      [] outcome = "sysex" -> F

\* item = self._execqueue.get(); item is None: self._stopsend(); break
ServeStop ==
    /\ serve.pc = "get"
    /\ execqueue # <<>> /\ Head(execqueue)[1] = 0
    /\ execqueue' = Tail(execqueue)
    /\ wclosed' = [wclosed EXCEPT !["B"] = TRUE]
    /\ serve' = [serve EXCEPT !.pc = "ended"]
    /\ UNCHANGED <<chan, channels, callbacks, cblog, count, wire, finished,
                   receivelock, rpc, rloc, th, sentlog, exc, ops, cvars, limit, group, multi>>

\* item = self._execqueue.get(); self.executetask(item): the hosted source
\* ends with outcome; except self._StopExecLoop: break
ServeTask(outcome) ==
    /\ serve.pc = "get"
    /\ execqueue # <<>> /\ Head(execqueue)[1] # 0
    /\ LET o == Head(execqueue)[1]
           F == [Factory("B") EXCEPT !.execqueue = Tail(@)]
       IN  /\ Commit("B", executetask(F, o, outcome))
           /\ serve' = [pc |-> IF outcome = "StopExecLoop" THEN "ended" ELSE "get",
                        ran |-> Append(serve.ran, [o |-> o, outcome |-> outcome])]
    /\ UNCHANGED <<finished, wclosed, receivelock, rpc, rloc, th, sentlog, exc, ops,
                   cvars, limit, group, multi>>

----------------------------------------------------------------------------
(* multi.Group.  A gateway id is the string of a number, written as the     *)
(* number; G is the group record, n the index of a gateway object          *)

MaxGateways == 2
MaxTerminate == 2
GatewayIds == 1..2

Gateway(id, popen, unreg) ==
    [id |-> id, hasgroup |-> FALSE, popen |-> popen, unreg |-> unreg,
     exitreq |-> FALSE, texits |-> 0,
     joined |-> FALSE, waited |-> FALSE, killed |-> FALSE]

RECURSIVE SortedSeq(_)
\* l = list(...); l.sort()
SortedSeq(S) ==
    IF S = {} THEN <<>>
    ELSE LET m == CHOOSE x \in S : \A y \in S : x <= y
         IN  <<m>> \o SortedSeq(S \ {m})

\* Group._allocate_id(id): [ok, id, G]; id = 0 stands for None, ok is FALSE
\* when the assert fails
_allocate_id(G, id) ==
    LET theid == IF id = 0 THEN G.autoidcounter ELSE id
    IN  [ok |-> ~Has(G.id2gateway, theid), id |-> theid,
         G |-> IF id = 0 THEN [G EXCEPT !.autoidcounter = @ + 1] ELSE G]

\* the asserts of Group._register(gateway) hold; the third one tests the
\* builtin function id, which is in no dictionary
RegisterAsserts(G, n) ==
    /\ ~G.gws[n].hasgroup
    /\ G.gws[n].id # 0
    /\ TRUE
    /\ n \notin G.activegateways

\* Group._register(gateway) past its asserts
_register(G, n) ==
    [G EXCEPT !.activegateways = @ \cup {n},
              !.id2gateway = Put(@, G.gws[n].id, n),
              !.gws[n].hasgroup = TRUE]

\* Group._unregister(gateway): [raised, G]
_unregister(G, n) ==
    IF ~Has(G.id2gateway, G.gws[n].id) THEN [raised |-> "KeyError", G |-> G]
    ELSE LET G1 == [G EXCEPT !.id2gateway = Del(@, G.gws[n].id)]
         IN  IF n \notin G.activegateways THEN [raised |-> "KeyError", G |-> G1]
             ELSE [raised |-> "none",
                   G |-> [G1 EXCEPT !.activegateways = @ \ {n},
                                    !.gateways_to_join = Append(@, n)]]

\* gateway.exit(): the gateway leaves its group for the joining set and
\* stops; on a gateway that has left already it does nothing.  The exit()
\* of an object that is no Gateway (the PseudoGW of test_basic_group) does
\* not touch the group
exit(G, n) ==
    IF ~G.gws[n].unreg THEN [G EXCEPT !.gws[n].exitreq = TRUE]
    ELSE LET r == _unregister(G, n)
         IN  IF r.raised # "none" THEN r.G
             ELSE [r.G EXCEPT !.gws[n].exitreq = TRUE]

\* no terminate() is running, nor the worker of an earlier one
GroupIdle == group.tpc \in {"idle", "returned", "ended"} /\ group.kpc # "killing"
GroupStep(G, raised) ==
    /\ group' = [G EXCEPT !.raised = raised]
    /\ UNCHANGED <<cvars, kvars, multi>>

\* a call other than terminate() ends: no terminate() has just returned
GroupCall(G, raised) == GroupStep([G EXCEPT !.tpc = "idle"], raised)

\* Group.makegateway(spec) for a popen or socket spec without chdir and nice
MakeGateway(id, popen) ==
    /\ GroupIdle /\ Len(group.gws) < MaxGateways
    /\ LET a == _allocate_id(group, id)
           n == Len(group.gws) + 1
           G1 == [a.G EXCEPT !.gws = Append(@, Gateway(a.id, popen, TRUE))]
       IN  IF ~a.ok THEN GroupCall(a.G, "AssertionError")
           ELSE IF ~RegisterAsserts(G1, n) THEN GroupCall(G1, "AssertionError")
           ELSE GroupCall(_register(G1, n), "none")

\* group._register(gateway) with a gateway object made elsewhere
RegisterNew(id, popen, unreg) ==
    /\ GroupIdle /\ Len(group.gws) < MaxGateways
    /\ LET n == Len(group.gws) + 1
           G1 == [group EXCEPT !.gws = Append(@, Gateway(id, popen, unreg))]
       IN  IF ~RegisterAsserts(G1, n) THEN GroupCall(G1, "AssertionError")
           ELSE GroupCall(_register(G1, n), "none")

\* group._register(gateway) with a gateway the group has seen
Register(n) ==
    /\ GroupIdle /\ group.raised # "AssertionError"
    /\ IF ~RegisterAsserts(group, n) THEN GroupCall(group, "AssertionError")
       ELSE GroupCall(_register(group, n), "none")

\* gateway.exit() called by the user
GatewayExit(n) ==
    /\ GroupIdle /\ ~group.gws[n].exitreq
    /\ GroupCall(exit(group, n), "none")

\* terminate(timeout): for gw in self (the gateways of _id2gateway, by id)
TerminateStart(timeout) ==
    /\ GroupIdle /\ group.truns < MaxTerminate
    /\ GroupStep([group EXCEPT
                    !.tpc = "exiting", !.kpc = "none", !.tw = 0, !.texp = {},
                    !.timeout = timeout, !.truns = @ + 1,
                    !.rerun = group.tpc \in {"returned", "ended"},
                    !.tmembers = group.activegateways,
                    !.titer = LET ids == SortedSeq({e[1] : e \in
                                            {group.id2gateway[i] : i \in 1..Len(group.id2gateway)}})
                              IN  [i \in 1..Len(ids) |-> Get(group.id2gateway, ids[i])]],
                 "none")

\* gw.exit() of one turn of the loop; after the last the worker starts
TerminateExit ==
    /\ group.tpc = "exiting"
    /\ IF group.titer = <<>>
       THEN GroupStep([group EXCEPT !.tpc = "joining", !.tj = 1], "none")
       ELSE LET n == Head(group.titer)
            IN  GroupStep([exit(group, n) EXCEPT !.titer = Tail(@),
                                                !.gws[n].texits = @ + 1], "none")

\* the worker: for gw in self._gateways_to_join: gw.join(), which returns
\* once the receiver thread of gw has ended
TerminateJoin ==
    /\ group.tpc = "joining"
    /\ IF group.tj > Len(group.gateways_to_join)
       THEN GroupStep([group EXCEPT !.tpc = "waiting"], "none")
       ELSE /\ group.gws[group.gateways_to_join[group.tj]].exitreq
            /\ GroupStep([group EXCEPT !.gws[group.gateways_to_join[group.tj]].joined = TRUE,
                                       !.tj = @ + 1], "none")

\* the worker ends; reply.get returns unless it has timed out
WorkerEnd(G) ==
    [G EXCEPT !.tpc = IF G.kpc = "none" THEN "returned" ELSE "ended", !.tw = 0]

\* the worker: while self._gateways_to_join: gw = self._gateways_to_join[0]
TerminateWait ==
    /\ group.tpc = "waiting" /\ group.tw = 0
    /\ IF group.gateways_to_join = <<>>
       THEN GroupStep(WorkerEnd(group), "none")
       ELSE GroupStep([group EXCEPT !.tw = Head(group.gateways_to_join)], "none")

\* the worker: gw._popen.wait() if gw has _popen, it returns once the
\* child has ended; del self._gateways_to_join[0], an IndexError on an
\* empty list ends the worker
TerminateDel ==
    /\ group.tpc = "waiting" /\ group.tw # 0
    /\ LET n == group.tw
           G1 == [group EXCEPT !.gws[n].waited = group.gws[n].popen]
       IN  IF G1.gateways_to_join = <<>>
           THEN GroupStep(WorkerEnd(G1), "IndexError")
           ELSE GroupStep([G1 EXCEPT !.gateways_to_join = Tail(@), !.tw = 0], "none")

\* reply.get(timeout=timeout) raises IOError before the worker is through
TerminateTimeout ==
    /\ group.tpc \in {"joining", "waiting"}
    /\ group.timeout /\ group.kpc = "none"
    /\ GroupStep([group EXCEPT !.kpc = "killing",
                               !.texp = {group.gateways_to_join[i] :
                                           i \in 1..Len(group.gateways_to_join)}], "none")

\* while self._gateways_to_join: gw = self._gateways_to_join.pop(0);
\* killpopen(popen) if gw has _popen; then terminate returns
TerminateKill ==
    /\ group.kpc = "killing"
    /\ IF group.gateways_to_join = <<>>
       THEN GroupStep([group EXCEPT !.kpc = "done"], "none")
       ELSE LET n == Head(group.gateways_to_join)
            IN  GroupStep([group EXCEPT !.gws[n].killed = group.gws[n].popen,
                                       !.gateways_to_join = Tail(@)], "none")

GroupNext ==
    \/ \E id \in {0} \cup GatewayIds, popen \in BOOLEAN : MakeGateway(id, popen)
    \/ \E id \in GatewayIds, popen, unreg \in BOOLEAN : RegisterNew(id, popen, unreg)
    \/ \E n \in 1..Len(group.gws) : Register(n)
    \/ \E n \in 1..Len(group.gws) : GatewayExit(n)
    \/ \E timeout \in BOOLEAN : TerminateStart(timeout)
    \/ TerminateExit
    \/ TerminateJoin
    \/ TerminateWait
    \/ TerminateDel
    \/ TerminateTimeout
    \/ TerminateKill

GroupInit == MainInit /\ CodecIdle /\ limit = [calls |-> 0, new |-> 0]

SpecGroup == GroupInit /\ [][GroupNext]_vars

(* multi.MultiChannel over channels of side "A" *)

MaxMembers == 2
MaxMultiOps == 5

\* a channel object of side "A": what Gateway.remote_exec returned
Local(o) == chan[o].side = "A"

\* the call of MultiChannel that ended last, and how
MultiEnded(M, call, raised) ==
    /\ multi' = [M EXCEPT !.pc = "idle", !.call = call, !.raised = raised]
    /\ exc' = Ended(call, raised)

\* MultiChannel.__init__(channels): self._channels = channels (members)
MultiChannel(members) ==
    /\ ~multi.made
    /\ multi' = [NewMulti EXCEPT !.channels = members, !.made = TRUE]
    /\ UNCHANGED <<cvars, kvars, group>>

\* the loop of send_each from member i on: for ch in self._channels:
\* ch.send(item); an IOError of a closed member ends the loop.  S carries
\* the factory of side "A", its sentlog and the calls made
RECURSIVE send_each(_, _, _, _)
send_each(S, members, i, item) ==
    IF i > Len(members) THEN [S EXCEPT !.raised = "none"]
    ELSE LET o == members[i]
         IN  IF S.F.chan[o].closed
             THEN [S EXCEPT !.raised = "IOError",
                            !.calls = Append(@, [o |-> o, raised |-> "IOError"])]
             ELSE send_each([S EXCEPT
                                !.F = _send(@, SendMessage(o, item)),
                                !.sentlog[chan[o].id] = Append(@, item),
                                !.calls = Append(@, [o |-> o, raised |-> "none"])],
                            members, i + 1, item)

\* MultiChannel.send_each(item)
SendEach(item) ==
    /\ MayCall /\ multi.made /\ multi.pc = "idle"
    /\ ops' = ops + 1
    /\ LET S == send_each([F |-> Factory("A"), sentlog |-> sentlog["A"],
                           calls |-> <<>>, raised |-> "none"],
                          multi.channels, 1, item)
       IN  /\ Commit("A", S.F)
           /\ sentlog' = [sentlog EXCEPT !["A"] = S.sentlog]
           /\ MultiEnded([multi EXCEPT !.calls = S.calls, !.item = item],
                         "send_each", S.raised)
    /\ UNCHANGED <<finished, wclosed, receivelock, rpc, rloc, th, cvars, limit, serve, group>>

Collect_front(l, withchannel, o, x) ==
    <<IF withchannel THEN PyTuple(<<ChanRef(o), x>>) ELSE x>> \o l
\* if withchannel: l.append((ch, obj)) else: l.append(obj)
Collect(l, withchannel, o, x) ==
    Append(l, IF withchannel THEN PyTuple(<<ChanRef(o), x>>) ELSE x)

\* MultiChannel.receive_each(withchannel): no receive queue was made, so the
\* assert holds; l = []
ReceiveEach(withchannel) ==
    /\ MayCall /\ multi.made /\ multi.pc = "idle"
    /\ ops' = ops + 1
    /\ multi' = [multi EXCEPT !.pc = "recv", !.call = "receive_each", !.i = 1,
                              !.l = <<>>, !.calls = <<>>, !.withchannel = withchannel]
    /\ UNCHANGED <<cvars, chan, channels, callbacks, count, finished, wire, wclosed,
                   receivelock, rpc, rloc, execqueue, th, cblog, sentlog, exc, limit,
                   serve, group>>

\* obj = ch.receive() of the member the loop is at, up to the return of
\* queue.get() (it blocks while the queue is empty); l.append((ch, obj)) or
\* l.append(obj); after the last member: return l
ReceiveEachGet ==
    /\ multi.pc = "recv"
    /\ LET o == multi.channels[multi.i]
           x == Head(chan[o].q)
           M == [multi EXCEPT
                    !.l = Collect(@, multi.withchannel, o, x),
                    !.calls = Append(@, [o |-> o, raised |-> "none"]),
                    !.i = @ + 1]
       IN  IF chan[o].noitems
           THEN /\ MultiEnded([multi EXCEPT
                                  !.calls = Append(@, [o |-> o, raised |-> "IOError"])],
                              "receive_each", "IOError")
                /\ chan' = chan
           ELSE /\ chan[o].q # <<>>
                /\ IF x = ENDMARKER
                   THEN /\ chan' = [chan EXCEPT ![o].q = Tail(@)]
                        /\ multi' = [multi EXCEPT !.pc = "recv_put"]
                        /\ exc' = exc
                   ELSE /\ chan' = [chan EXCEPT ![o].q = Tail(@), ![o].got = Append(@, x)]
                        /\ IF multi.i = Len(multi.channels)
                           THEN MultiEnded([M EXCEPT !.ret = PyList(M.l)],
                                           "receive_each", "none")
                           ELSE multi' = M /\ exc' = exc
    /\ UNCHANGED <<cvars, channels, callbacks, count, finished, wire, wclosed,
                   receivelock, rpc, rloc, execqueue, th, cblog, sentlog, ops, limit,
                   serve, group>>

\* ch.receive() got ENDMARKER: queue.put(x); raise self._getremoteerror()
\* or EOFError(); the exception leaves receive_each
ReceiveEachPut ==
    /\ multi.pc = "recv_put"
    /\ LET o == multi.channels[multi.i]
           name == IF chan[o].errs # <<>> THEN "RemoteError" ELSE "EOFError"
       IN  /\ chan' = [chan EXCEPT ![o].q = Append(@, ENDMARKER),
                                   ![o].errs = IF @ # <<>> THEN Tail(@) ELSE @,
                                   ![o].got = Append(@, Raised(name))]
           /\ MultiEnded([multi EXCEPT !.calls = Append(@, [o |-> o, raised |-> name])],
                         "receive_each", name)
    /\ UNCHANGED <<cvars, channels, callbacks, count, finished, wire, wclosed,
                   receivelock, rpc, rloc, execqueue, th, cblog, sentlog, ops, limit,
                   serve, group>>

\* MultiChannel.waitclose(): first = None
WaitCloseEach ==
    /\ MayCall /\ multi.made /\ multi.pc = "idle"
    /\ ops' = ops + 1
    /\ multi' = [multi EXCEPT !.pc = "wait", !.call = "waitclose", !.i = 1,
                              !.calls = <<>>, !.first = NoError, !.firsti = 0]
    /\ UNCHANGED <<cvars, chan, channels, callbacks, count, finished, wire, wclosed,
                   receivelock, rpc, rloc, execqueue, th, cblog, sentlog, exc, limit,
                   serve, group>>

WaitCloseEachStep_propagates ==
    /\ multi.pc = "wait"
    /\ LET o == multi.channels[multi.i]
           error == IF chan[o].errs # <<>> THEN Head(chan[o].errs) ELSE NoError
           M == [multi EXCEPT
                    !.calls = Append(@, [o |-> o, raised |-> IF error # NoError
                                                             THEN "RemoteError" ELSE "none"]),
                    !.first = IF error # NoError THEN error ELSE @,
                    !.firsti = IF error # NoError THEN multi.i ELSE @,
                    !.i = @ + 1]
       IN  /\ chan[o].rclosed
           /\ chan' = [chan EXCEPT ![o].errs = IF @ # <<>> THEN Tail(@) ELSE @]
           /\ IF multi.i = Len(multi.channels) \/ error # NoError
              THEN MultiEnded(M, "waitclose",
                              IF M.first # NoError THEN "RemoteError" ELSE "none")
              ELSE multi' = M /\ exc' = exc
    /\ UNCHANGED <<cvars, channels, callbacks, count, finished, wire, wclosed,
                   receivelock, rpc, rloc, execqueue, th, cblog, sentlog, ops, limit,
                   serve, group>>
\* try: ch.waitclose() (it blocks until _receiveclosed is set and raises
\* the channel's remote error, if one is left); except ch.RemoteError: if
\* first is None: first = sys.exc_info(); after the last member:
\* if first: reraise(*first)
WaitCloseEachStep ==
    /\ multi.pc = "wait"
    /\ LET o == multi.channels[multi.i]
           error == IF chan[o].errs # <<>> THEN Head(chan[o].errs) ELSE NoError
           keep == error # NoError /\ multi.first = NoError
           M == [multi EXCEPT
                    !.calls = Append(@, [o |-> o, raised |-> IF error # NoError
                                                             THEN "RemoteError" ELSE "none"]),
                    !.first = IF keep THEN error ELSE @,
                    !.firsti = IF keep THEN multi.i ELSE @,
                    !.i = @ + 1]
       IN  /\ chan[o].rclosed
           /\ chan' = [chan EXCEPT ![o].errs = IF @ # <<>> THEN Tail(@) ELSE @]
           /\ IF multi.i = Len(multi.channels)
              THEN MultiEnded(M, "waitclose",
                              IF M.first # NoError THEN "RemoteError" ELSE "none")
              ELSE multi' = M /\ exc' = exc
    /\ UNCHANGED <<cvars, channels, callbacks, count, finished, wire, wclosed,
                   receivelock, rpc, rloc, execqueue, th, cblog, sentlog, ops, limit,
                   serve, group>>

\* channels opened by remote_exec and a MultiChannel over them, in the
\* order they were opened in, as Group.remote_exec makes it; the peer sends
\* on its ends, and its serve loop runs the tasks and closes them
MultiInit == MainInit /\ CodecIdle /\ limit = [calls |-> MaxMultiOps, new |-> MaxMembers]

MultiNext ==
    \/ RemoteExec
    \/ Cardinality(Minted) = limit.new
          /\ MultiChannel(SelectSeq([o \in Objects |-> o], Local))
    \/ SendEach(PyInt(ops + 1))
    \/ \E withchannel \in BOOLEAN : ReceiveEach(withchannel)
    \/ ReceiveEachGet
    \/ ReceiveEachPut
    \/ WaitCloseEach
    \/ WaitCloseEachStep
    \/ \E o \in Objects : ~Local(o) /\ Send(o, PyInt(ops + 1))
    \/ \E outcome \in {"return", "raise"} : ServeTask(outcome)
    \/ \E g \in Sides : ReceiverDispatch(g)

SpecMulti == MultiInit /\ [][MultiNext]_vars

----------------------------------------------------------------------------
Next ==
    \/ RemoteExec
    \/ \E g \in Sides : NewChannel(g)
    \/ \E o \in Objects : \E item \in Sendable(o) : Send(o, item)
    \/ \E o \in Objects : WaitClose(o)
    \/ \E o \in Objects : WaitCloseTimeout(o)
    \/ \E g \in Sides : Exit(g)
    \/ \E t \in Threads, o \in Objects : Receive(t, o)
    \/ \E t \in Threads : ReceiveGet(t)
    \/ \E t \in Threads : ReceivePut(t)
    \/ \E t \in Threads, o \in Objects :
          \E endmarker \in {NO_ENDMARKER_WANTED, UserEndmarker} : SetCallback(t, o, endmarker)
    \/ \E t \in Threads : SetCallbackGet(t)
    \/ \E t \in Threads : SetCallbackInstall(t)
    \/ \E t \in Threads, o \in Objects : \E error \in {NoError, UserError} : Close(t, o, error)
    \/ \E t \in Threads : CloseFlags(t)
    \/ \E t \in Threads : CloseReadq(t)
    \/ \E t \in Threads : ClosePut(t)
    \/ \E t \in Threads : CloseNoLongerOpened(t)
    \/ \E g \in Sides : ReceiverDispatch(g)
    \/ \E g \in Sides : ReceiverBreak(g)
    \/ \E g \in Sides : FinishedReceiving(g)
    \/ \E g \in Sides : FinishedChannel(g)
    \/ \E g \in Sides : FinishedListCallbacks(g)
    \/ \E g \in Sides : FinishedCallback(g)
    \/ \E g \in Sides : ReceiverDone(g)
    \/ \E outcome \in TaskOutcomes : ServeTask(outcome)
    \/ ServeStop

Spec == Init /\ [][Next]_vars

----------------------------------------------------------------------------
(* One channel pair opened by remote_exec, with more calls on it and no     *)
(* end of the connection: the calls of Channel and the receivers' dispatch  *)

MaxChannelOps == 4

ChannelInit == MainInit /\ CodecIdle /\ limit = [calls |-> MaxChannelOps, new |-> 1]

ChannelNext ==
    \/ RemoteExec
    \/ \E o \in Objects : \E item \in Sendable(o) : item.t \in {"int", "tuple"} /\ Send(o, item)
    \/ \E t \in Threads, o \in Objects : Receive(t, o)
    \/ \E t \in Threads : ReceiveGet(t)
    \/ \E t \in Threads : ReceivePut(t)
    \/ \E t \in Threads, o \in Objects :
          \E endmarker \in {NO_ENDMARKER_WANTED, UserEndmarker} : SetCallback(t, o, endmarker)
    \/ \E t \in Threads : SetCallbackGet(t)
    \/ \E t \in Threads : SetCallbackInstall(t)
    \/ \E t \in Threads, o \in Objects : \E error \in {NoError, UserError} : Close(t, o, error)
    \/ \E t \in Threads : CloseFlags(t)
    \/ \E t \in Threads : CloseReadq(t)
    \/ \E t \in Threads : ClosePut(t)
    \/ \E t \in Threads : CloseNoLongerOpened(t)
    \/ \E g \in Sides : ReceiverDispatch(g)

SpecChannel == ChannelInit /\ [][ChannelNext]_vars

----------------------------------------------------------------------------
(* One channel pair in queue mode: side "A" sends, side "B" receives, and   *)
(* either side closes                                                       *)

MaxStreamOps == 5

StreamInit == MainInit /\ CodecIdle /\ limit = [calls |-> MaxStreamOps, new |-> 1]

StreamNext ==
    \/ RemoteExec
    \/ \E o \in Objects : \E item \in Sendable(o) :
          chan[o].side = "A" /\ item.t \in {"int", "tuple"} /\ Send(o, item)
    \/ \E t \in Threads, o \in Objects : chan[o].side = "B" /\ Receive(t, o)
    \/ \E t \in Threads : ReceiveGet(t)
    \/ \E t \in Threads : ReceivePut(t)
    \/ \E t \in Threads, o \in Objects : \E error \in {NoError, UserError} : Close(t, o, error)
    \/ \E t \in Threads : CloseFlags(t)
    \/ \E t \in Threads : CloseReadq(t)
    \/ \E t \in Threads : ClosePut(t)
    \/ \E t \in Threads : CloseNoLongerOpened(t)
    \/ \E g \in Sides : ReceiverDispatch(g)

SpecStream == StreamInit /\ [][StreamNext]_vars

----------------------------------------------------------------------------
(* The codec harness: one value, or one message, through the codec *)

MaxLen == 2        \* longest tuple, list or dict the harness builds

MinInt4 == -FOUR_BYTE_INT_MAX - 1

Atoms ==
    { PyNone, PyBool(TRUE), PyBool(FALSE),
      PyInt(-1), PyInt(MinInt4), PyInt(FOUR_BYTE_INT_MAX),
      PyBytes(<<0, 255>>), PyStr(<<97, 228>>) }
Inner == Atoms \cup {PyTuple(<<>>), PyList(<<>>), PyDict(<<>>)}
DictKeys == {PyInt(-1), PyStr(<<97, 228>>), PyTuple(<<PyBool(TRUE)>>)}
DictVals == {PyNone, PyInt(-1), PyTuple(<<>>), PyList(<<>>)}

SeqsUpTo(S, n) == UNION {[1..k -> S] : k \in 0..n}
DistinctKeys(d) == \A i, j \in 1..Len(d) : i # j => d[i][1] # d[j][1]

Level1 ==
    {PyTuple(s) : s \in SeqsUpTo(Inner, MaxLen)}
      \cup {PyList(s) : s \in SeqsUpTo(Inner, MaxLen)}
      \cup {PyDict(d) : d \in {e \in SeqsUpTo(DictKeys \X DictVals, MaxLen) :
                                  DistinctKeys(e)}}
Level2 ==
    UNION { {PyTuple(<<x>>), PyList(<<x>>), PyTuple(<<PyInt(-1), x>>),
             PyDict(<<<<PyInt(-1), x>>>>)} : x \in Level1 }
\* 2^31, -2^31 - 1 and -2^32
Longs == {PyLong(1, MinInt4), PyLong(-1, FOUR_BYTE_INT_MAX), PyLong(-1, 0)}
CodecValues == Atoms \cup Level1 \cup Level2 \cup Longs

CodecInit ==
    /\ MainInit
    /\ limit = [calls |-> 0, new |-> 0]
    /\ cobj \in CodecValues
    /\ cstream = <<>>
    /\ cres = Outcome("none", PyNone, 0)
    /\ cmsg = NoMsg
    /\ cpc = "start"

\* Serializer(stream).save(cobj)
CodecSave ==
    /\ cpc = "start"
    /\ cstream' = save(cobj).out
    /\ cpc' = IF save(cobj).ok THEN "saved"
              ELSE IF save(cobj).raised = "SerializationError" THEN "savefailed"
              ELSE "savecrashed"
    /\ UNCHANGED <<cobj, cres, cmsg, mvars>>

\* Unserializer(stream).load()
CodecLoad ==
    /\ cpc = "saved"
    /\ cres' = load(cstream)
    /\ cpc' = "loaded"
    /\ UNCHANGED <<cobj, cstream, cmsg, mvars>>

\* Message subclass(channelid, cobj).writeto(io)
CodecWriteto ==
    /\ cpc = "start"
    /\ \E msgtype \in MsgTypes :
         /\ cmsg' = Message(msgtype, PyInt(1), cobj)
         /\ cstream' = writeto(Message(msgtype, PyInt(1), cobj)).out
         /\ cpc' = IF writeto(Message(msgtype, PyInt(1), cobj)).ok
                   THEN "written" ELSE "savefailed"
    /\ UNCHANGED <<cobj, cres, mvars>>

\* Message.readfrom(io)
CodecReadfrom ==
    /\ cpc = "written"
    /\ LET r == readfrom(cstream)
       IN  cres' = Outcome(r.st, PyTuple(<<PyInt(r.msg.msgtype), r.msg.channelid,
                                           r.msg.data>>), r.pos)
    /\ cpc' = "read"
    /\ UNCHANGED <<cobj, cstream, cmsg, mvars>>

CodecNext == CodecSave \/ CodecLoad \/ CodecWriteto \/ CodecReadfrom

SpecCodec == CodecInit /\ [][CodecNext]_vars

----------------------------------------------------------------------------
(* One channel pair whose channel objects user code drops, with callbacks,  *)
(* closes and the end of the connection                                     *)

MaxDropOps == 3

DropInit == MainInit /\ CodecIdle /\ limit = [calls |-> MaxDropOps, new |-> 1]

DropNext ==
    \/ RemoteExec
    \/ \E o \in Objects : Live(o) /\ Send(o, PyInt(ops + 1))
    \/ \E o \in Objects : Live(o) /\ WaitClose(o)
    \/ \E g \in Sides : Exit(g)
    \/ \E t \in Threads, o \in Objects : Live(o) /\ SetCallback(t, o, UserEndmarker)
    \/ \E t \in Threads : SetCallbackGet(t)
    \/ \E t \in Threads : SetCallbackInstall(t)
    \/ \E t \in Threads, o \in Objects : Live(o) /\ Close(t, o, NoError)
    \/ \E t \in Threads : CloseFlags(t)
    \/ \E t \in Threads : CloseReadq(t)
    \/ \E t \in Threads : ClosePut(t)
    \/ \E t \in Threads : CloseNoLongerOpened(t)
    \/ \E o \in Objects : Drop(o)
    \/ ServeTask("return")
    \/ \E g \in Sides : ReceiverDispatch(g)
    \/ \E g \in Sides : ReceiverBreak(g)
    \/ \E g \in Sides : FinishedReceiving(g)
    \/ \E g \in Sides : FinishedChannel(g)
    \/ \E g \in Sides : FinishedListCallbacks(g)
    \/ \E g \in Sides : FinishedCallback(g)
    \/ \E g \in Sides : ReceiverDone(g)

SpecDrop == DropInit /\ [][DropNext]_vars

----------------------------------------------------------------------------
(* One channel pair whose initiating side installs a callback and drops    *)
(* the channel; the peer's channel gets CHANNEL_LAST_MESSAGE and is used   *)
(* on; no receiver ends                                                    *)

MaxSendonlyOps == 4

SendonlyInit == MainInit /\ CodecIdle /\ limit = [calls |-> MaxSendonlyOps, new |-> 1]

SendonlyNext ==
    \/ RemoteExec
    \/ \E t \in Threads, o \in Objects :
          Live(o) /\ chan[o].side = "A" /\ SetCallback(t, o, UserEndmarker)
    \/ \E t \in Threads : SetCallbackGet(t)
    \/ \E t \in Threads : SetCallbackInstall(t)
    \/ \E o \in Objects : chan[o].side = "A" /\ Drop(o)
    \/ \E o \in Objects : Live(o) /\ Send(o, PyInt(ops + 1))
    \/ \E o \in Objects : Live(o) /\ chan[o].side = "B" /\ WaitClose(o)
    \/ Exit("B")
    \/ \E t \in Threads, o \in Objects :
          Live(o) /\ chan[o].side = "B" /\ Close(t, o, NoError)
    \/ \E t \in Threads : CloseFlags(t)
    \/ \E t \in Threads : CloseReadq(t)
    \/ \E t \in Threads : ClosePut(t)
    \/ \E t \in Threads : CloseNoLongerOpened(t)
    \/ \E g \in Sides : ReceiverDispatch(g)

SpecSendonly == SendonlyInit /\ [][SendonlyNext]_vars

----------------------------------------------------------------------------
(* One channel that stays open: side "B" sends numbered items, threads of   *)
(* side "A" call receive() and setcallback() while the receiver delivers    *)

MaxHandoverOps == 6

HandoverInit == MainInit /\ CodecIdle /\ limit = [calls |-> MaxHandoverOps, new |-> 1]

HandoverNext ==
    \/ RemoteExec
    \/ \E o \in Objects : chan[o].side = "B" /\ Send(o, PyInt(ops + 1))
    \/ \E t \in Threads, o \in Objects : chan[o].side = "A" /\ Receive(t, o)
    \/ \E t \in Threads : ReceiveGet(t)
    \/ \E t \in Threads, o \in Objects :
          chan[o].side = "A" /\ SetCallback(t, o, NO_ENDMARKER_WANTED)
    \/ \E t \in Threads : SetCallbackGet(t)
    \/ \E t \in Threads : SetCallbackInstall(t)
    \/ \E g \in Sides : ReceiverDispatch(g)

SpecHandover == HandoverInit /\ [][HandoverNext]_vars

----------------------------------------------------------------------------
(* CHANNEL_OPEN in both directions: the initiating side calls remote_exec,  *)
(* code of the serving side opens a channel towards the initiating side     *)

MaxRefuseOps == 4

\* on the serving side: channel = gateway.newchannel();
\* gateway._send(Message.CHANNEL_OPEN(channel.id, source))
PeerOpen ==
    /\ MayCall /\ Cardinality(Minted) < limit.new
    /\ ~finished["B"]
    /\ ops' = ops + 1
    /\ exc' = Ended("newchannel", "none")
    /\ Commit("B", _send(new(Factory("B"), "B", 0),
                         Message(CHANNEL_OPEN, PyInt(count["B"]), UserSource)))
    /\ UNCHANGED <<finished, wclosed, receivelock, rpc, rloc, th, sentlog, hvars>>

RefuseInit == MainInit /\ CodecIdle /\ limit = [calls |-> MaxRefuseOps, new |-> 3]

RefuseNext ==
    \/ RemoteExec
    \/ PeerOpen
    \/ \E g \in Sides : Exit(g)
    \/ \E g \in Sides : ReceiverDispatch(g)

SpecRefuse == RefuseInit /\ [][RefuseNext]_vars

----------------------------------------------------------------------------
(* Unserializer.load on byte streams no Serializer wrote *)

MaxStream == 5

\* the bytes of the streams: 0 and 1 (the version, no opcode either), and
\* opcodes
StreamBytes == {0, VERSION_NUMBER, NONE, NEWDICT, NEWLIST, SETITEM, STOP}
LoadStreams == UNION {[1..k -> StreamBytes] : k \in 1..MaxStream}

LoadInit ==
    /\ MainInit
    /\ limit = [calls |-> 0, new |-> 0]
    /\ cobj = PyNone
    /\ cstream \in LoadStreams
    /\ cres = Outcome("none", PyNone, 0)
    /\ cmsg = NoMsg
    /\ cpc = "stream"

\* Unserializer(stream).load() on such a stream
LoadStream ==
    /\ cpc = "stream"
    /\ cres' = load(cstream)
    /\ cpc' = "loaded"
    /\ UNCHANGED <<cobj, cstream, cmsg, mvars>>

SpecLoad == LoadInit /\ [][LoadStream]_vars

----------------------------------------------------------------------------
(* Unserializer.load_buildtuple on a stack: cobj holds the stack before,    *)
(* cres.pos the length read, cres.value the stack after                     *)

MaxDepth == 3

StackEntries == {PyNone, PyInt(-1), PyBool(TRUE)}

BuildtupleInit ==
    /\ MainInit
    /\ limit = [calls |-> 0, new |-> 0]
    /\ \E k \in 0..MaxDepth : \E stack \in [1..k -> StackEntries] : \E length \in 0..k :
          /\ cobj = PyList(stack)
          /\ cres = Outcome("none", PyNone, length)
    /\ cstream = <<>>
    /\ cmsg = NoMsg
    /\ cpc = "stack"

\* the opcode BUILDTUPLE with the length cres.pos on the stack cobj.v
Buildtuple ==
    /\ cpc = "stack"
    /\ cres' = Outcome("ok", PyList(load_buildtuple(cobj.v, cres.pos)), cres.pos)
    /\ cpc' = "built"
    /\ UNCHANGED <<cobj, cstream, cmsg, mvars>>

SpecBuildtuple == BuildtupleInit /\ [][Buildtuple]_vars

----------------------------------------------------------------------------
(* C2: codec round trip.  Unserializer.load on the bytes Serializer.save    *)
(* wrote for v returns v, for every v built from None, booleans, 32-bit     *)
(* integers, byte strings, text strings, tuples, lists and dicts; a message *)
(* written by Message.writeto is read back by Message.readfrom with the     *)
(* same tag, channel id and payload.                                        *)
C2_RoundTrip ==
    /\ cpc = "loaded" => (cres.st = "ok" /\ cres.value = cobj)
    /\ cpc = "read" =>
          /\ cres.st = "ok"
          /\ cres.value = PyTuple(<<PyInt(cmsg.msgtype), cmsg.channelid, cmsg.data>>)

----------------------------------------------------------------------------
(* One channel pair and the end of the connection: calls that race with     *)
(* the receivers' _finished_receiving                                       *)

MaxTeardownOps == 4

TeardownInit == MainInit /\ CodecIdle /\ limit = [calls |-> MaxTeardownOps, new |-> 1]

TeardownNext ==
    \/ RemoteExec
    \/ \E o \in Objects : \E item \in Sendable(o) : item.t \in {"int", "chan"} /\ Send(o, item)
    \/ \E g \in Sides : Exit(g)
    \/ \E t \in Threads, o \in Objects : SetCallback(t, o, UserEndmarker)
    \/ \E t \in Threads : SetCallbackGet(t)
    \/ \E t \in Threads : SetCallbackInstall(t)
    \/ \E t \in Threads, o \in Objects : Close(t, o, NoError)
    \/ \E t \in Threads : CloseFlags(t)
    \/ \E t \in Threads : CloseReadq(t)
    \/ \E t \in Threads : ClosePut(t)
    \/ \E t \in Threads : CloseNoLongerOpened(t)
    \/ \E g \in Sides : ReceiverDispatch(g)
    \/ \E g \in Sides : ReceiverBreak(g)
    \/ \E g \in Sides : FinishedReceiving(g)
    \/ \E g \in Sides : FinishedChannel(g)
    \/ \E g \in Sides : FinishedListCallbacks(g)
    \/ \E g \in Sides : FinishedCallback(g)
    \/ \E g \in Sides : ReceiverDone(g)

SpecTeardown == TeardownInit /\ [][TeardownNext]_vars

----------------------------------------------------------------------------
(* Two user threads sending on one gateway, frame written write by write;   *)
(* no receiver runs, so wire[g] is all that side g wrote                    *)

MaxWriterOps == 3

WritersInit == MainInit /\ CodecIdle /\ limit = [calls |-> MaxWriterOps, new |-> 1]

WritersNext ==
    \/ RemoteExec
    \/ \E t \in Threads, o \in Objects : SendBegin(t, o, PyInt(ops + 1))
    \/ \E t \in Threads : SendWrite(t)

SpecWriters == WritersInit /\ [][WritersNext]_vars

----------------------------------------------------------------------------
(* Tasks sent to the peer's serve loop *)

MaxServeOps == 3

ServeInit == MainInit /\ CodecIdle /\ limit = [calls |-> MaxServeOps, new |-> 2]

ServeNext ==
    \/ RemoteExec
    \/ Exit("A")
    \/ \E outcome \in TaskOutcomes : ServeTask(outcome)
    \/ ServeStop
    \/ \E g \in Sides : ReceiverDispatch(g)
    \/ \E g \in Sides : ReceiverBreak(g)
    \/ \E g \in Sides : FinishedReceiving(g)
    \/ \E g \in Sides : FinishedChannel(g)
    \/ \E g \in Sides : FinishedListCallbacks(g)
    \/ \E g \in Sides : ReceiverDone(g)

SpecServe == ServeInit /\ [][ServeNext]_vars

----------------------------------------------------------------------------
(* Properties *)

\* the data items of a log or queue: neither the ENDMARKER nor a raise
Data(s) == SelectSeq(s, LAMBDA x : x.t \notin {"ENDMARKER", "raise"})
\* an item as both sides name it: a channel by its id
Named(x) == IF x.t = "chan" THEN [t |-> "chan", v |-> chan[x.v].id] ELSE x
NamedSeq(s) == [i \in 1..Len(s) |-> Named(s[i])]
\* channel object o is the one its side's factory routes its id to
Registered(o) ==
    /\ Has(channels[chan[o].side], chan[o].id)
    /\ Get(channels[chan[o].side], chan[o].id) = o
\* in how many calls callback cb of side g got arg
Calls(g, cb, arg) ==
    Cardinality({i \in 1..Len(cblog[g]) : cblog[g][i] = [cb |-> cb, arg |-> arg]})

\* C1: Channel FIFO.  On a channel that is registered, open and in queue
\* mode on the receiving side, once the receiver has read everything the
\* peer wrote, the items receive() returned followed by the items still
\* queued are exactly the items the peer's send() calls took, in order.
C1_ChannelFifo ==
    \A o \in Objects :
        LET g == chan[o].side
        IN  ( /\ Registered(o)
              /\ ~chan[o].noitems /\ ~chan[o].closed /\ ~chan[o].rclosed
              /\ wire[Peer(g)] = <<>> )
            => NamedSeq(Data(chan[o].got) \o Data(chan[o].q))
                 = NamedSeq(sentlog[Peer(g)][chan[o].id])

\* C3: Id disjointness.  The k-th id a side mints without an explicit id is
\* its start count plus 2(k-1): odd ids from 1 on side "A", even ids from 2
\* on side "B"; no id is minted on both sides and none is 0.
C3_IdDisjoint ==
    \A o \in Minted :
        LET g == chan[o].side
            before == Cardinality({p \in Minted : p < o /\ chan[p].side = g})
        IN  /\ chan[o].id = (IF g = "A" THEN 1 ELSE 2) + (2 * before)
            /\ chan[o].id % 2 = (IF g = "A" THEN 1 ELSE 0)
            /\ chan[o].id # 0
            /\ \A p \in Minted : chan[p].side # g => chan[p].id # chan[o].id

\* two ids minted on one side and one on the other
C3_Witness ==
    \E o, p, r \in Minted :
        /\ chan[o].side = "A" /\ chan[p].side = "A" /\ chan[r].side = "B"
        /\ chan[o].id = 1 /\ chan[p].id = 3 /\ chan[r].id = 2

\* every user thread is outside the Channel methods
AllIdle == \A t \in Threads : th[t].pc = "idle"

\* C5: Close cascade (callbacks).  When a side's receiver thread has ended
\* and no call is in progress, no callback is registered in that side's
\* factory and every callback setcallback installed with an endmarker has
\* been called with that endmarker exactly once.
C5_CascadeCallbacks ==
    \A g \in Sides :
        (rpc[g] = "done" /\ AllIdle) =>
            /\ callbacks[g] = <<>>
            /\ \A o \in Objects :
                  ( /\ chan[o].side = g
                    /\ chan[o].cbk.installed
                    /\ chan[o].cbk.endmarker # NO_ENDMARKER_WANTED )
                  => Calls(g, chan[o].cbk.cb, chan[o].cbk.endmarker) = 1

\* C6: Endmarker-once.  While the receiver of its side runs: once a channel
\* that setcallback(cb, endmarker=E) was called on is closed or
\* receive-closed and no call is in progress, cb has been called with E
\* exactly once.
C6_EndmarkerOnce ==
    \A o \in Objects :
        ( /\ rpc[chan[o].side] = "recv"
          /\ AllIdle
          /\ chan[o].cbk.cb # 0
          /\ chan[o].cbk.endmarker # NO_ENDMARKER_WANTED
          /\ (chan[o].closed \/ chan[o].rclosed) )
        => Calls(chan[o].side, chan[o].cbk.cb, chan[o].cbk.endmarker) = 1

\* C7: Callback exclusivity.  On a channel setcallback() was called on, a
\* receive() call raises IOError and changes no channel (no item leaves a
\* queue), and a setcallback() call raises IOError, leaves the registered
\* callbacks as they are and calls no callback.
C7_CallbackExclusive ==
    [][ \A t \in Threads, o \in Objects :
          chan[o].cbk.cb # 0 =>
            /\ Receive(t, o) =>
                  /\ exc' = Ended("receive", "IOError")
                  /\ chan' = chan /\ th' = th
            /\ \A endmarker \in {NO_ENDMARKER_WANTED, UserEndmarker} :
                  SetCallback(t, o, endmarker) =>
                     /\ exc' = Ended("setcallback", "IOError")
                     /\ chan' = chan /\ th' = th
                     /\ callbacks' = callbacks /\ cblog' = cblog ]_vars

\* a second setcallback() raised IOError while the callback of the first is
\* registered
C7_Witness ==
    /\ exc = Ended("setcallback", "IOError")
    /\ \E o \in Objects :
         /\ chan[o].cbk.installed
         /\ Has(callbacks[chan[o].side], chan[o].id)

\* the bytes are what one complete Message.writeto of msg writes
OneFrame(bytes, msg) == writeto(msg).ok /\ bytes = writeto(msg).out

\* C9: send() on a channel whose closed flag is set raises IOError and
\* writes nothing; send() on any other channel writes exactly one frame,
\* CHANNEL_DATA, or CHANNEL_NEW when the item is a Channel.
C9_SendFrames ==
    [][ \A o \in Objects : \A item \in Sendable(o) :
          Send(o, item) =>
            LET g == chan[o].side
                added == SubSeq(wire'[g], Len(wire[g]) + 1, Len(wire'[g]))
            IN  IF chan[o].closed
                THEN exc' = Ended("send", "IOError") /\ wire' = wire
                ELSE /\ exc' = Ended("send", "none")
                     /\ OneFrame(added, SendMessage(o, item))
                     /\ SendMessage(o, item).msgtype =
                           (IF item.t = "chan" THEN CHANNEL_NEW ELSE CHANNEL_DATA) ]_vars

\* C4: Close cascade (waiters).  Once a side's receiver loop has ended, a
\* channel registered in its factory leaves the registry only with its
\* receive-closed event set, and when the receiver thread is done no
\* channel is registered any more.
C4_CascadeWaiters ==
    /\ [](\A g \in Sides : rpc[g] = "done" => channels[g] = <<>>)
    /\ [][ \A o \in Objects :
             ( /\ rpc[chan[o].side] # "recv"
               /\ Registered(o)
               /\ ~(Has(channels'[chan[o].side], chan[o].id)
                      /\ Get(channels'[chan[o].side], chan[o].id) = o) )
             => chan'[o].rclosed ]_vars

\* C8: Blocked receivers are broken by close.  A thread waiting in
\* receive() on the empty queue of a channel that is closed or
\* receive-closed waits only while another call is still in progress.
C8_BlockedReceiversWake ==
    \A t \in Threads :
        ( /\ th[t].pc = "recv_get"
          /\ chan[th[t].o].q = <<>>
          /\ (chan[th[t].o].closed \/ chan[th[t].o].rclosed) )
        => \E u \in Threads \ {t} : th[u].pc \notin {"idle", "recv_get"}

\* the part of log s before its first entry of kind k ("ENDMARKER" or "raise")
Before(s, k) ==
    LET stops == {i \in 1..Len(s) : s[i].t = k}
    IN  IF stops = {} THEN s
        ELSE SubSeq(s, 1, (CHOOSE i \in stops : \A j \in stops : i <= j) - 1)
IsPrefix(s, r) == Len(s) <= Len(r) /\ SubSeq(r, 1, Len(s)) = s

\* C10: Drain before end-of-stream.  On a channel in queue mode, the items
\* receive() returned are the first of the items enqueued, in their order,
\* and once receive() has raised, the items it returned before that begin
\* with all the items enqueued before the first endmarker.
C10_DrainBeforeEof ==
    \A o \in Objects :
        ~chan[o].noitems =>
            /\ IsPrefix(Data(chan[o].got), Data(chan[o].enq))
            /\ (Before(chan[o].got, "raise") # chan[o].got) =>
                   IsPrefix(Before(chan[o].enq, "ENDMARKER"), Before(chan[o].got, "raise"))

\* the peer's close arrived behind an item: receive() returned the item,
\* then raised EOFError
C10_Witness ==
    \E o \in Objects :
        /\ chan[o].closed
        /\ Len(chan[o].got) = 2
        /\ chan[o].got[1].t = "int"
        /\ chan[o].got[2] = Raised("EOFError")

\* C11: Remote error surfaces.  On a channel a received CHANNEL_CLOSE_ERROR
\* closed, every receive() that finds the endmarker raises the RemoteError
\* with the peer's text, and every waitclose() raises it.
C11_RemoteErrorSurfaces ==
    [][ /\ \A t \in Threads :
             (ReceivePut(t) /\ chan[th[t].o].rerr # NoError) =>
                /\ exc' = Ended("receive", "RemoteError")
                /\ chan[th[t].o].errs # <<>>
                /\ Head(chan[th[t].o].errs) = chan[th[t].o].rerr
        /\ \A o \in Objects :
             (WaitClose(o) /\ chan[o].rerr # NoError) =>
                /\ exc' = Ended("waitclose", "RemoteError")
                /\ chan[o].errs # <<>>
                /\ Head(chan[o].errs) = chan[o].rerr ]_vars

\* C12: waitclose(timeout) that times out raises IOError and leaves the
\* channel (closed flag, receive-closed event, queue, remote errors), the
\* factory's channels and callbacks, the transport and every thread as
\* they were.
C12_TimeoutFrame ==
    [][ \A o \in Objects :
          WaitCloseTimeout(o) =>
            /\ exc' = Ended("waitclose", "IOError")
            /\ chan' = chan /\ channels' = channels /\ callbacks' = callbacks
            /\ cblog' = cblog /\ wire' = wire /\ th' = th /\ count' = count ]_vars

\* a waitclose(timeout) timed out on an open channel that holds an item
C12_Witness ==
    /\ exc = Ended("waitclose", "IOError")
    /\ \E o \in Objects : ~chan[o].rclosed /\ ~chan[o].closed /\ Data(chan[o].q) # <<>>

RECURSIVE WholeFrames(_)
\* bytes is a concatenation of frames that Message.readfrom decodes
WholeFrames(bytes) ==
    IF bytes = <<>> THEN TRUE
    ELSE LET r == readfrom(bytes)
         IN  r.st = "ok" /\ WholeFrames(SubSeq(bytes, r.pos + 1, Len(bytes)))

\* C13: once the concurrent send() calls of a gateway have returned, the
\* bytes it wrote to the transport are a concatenation of whole frames (no
\* frame's bytes are interleaved with another's)
C13_AtomicFrames ==
    (\A t \in Threads : th[t].pc # "send_write") =>
        \A g \in Sides : WholeFrames(wire[g])

\* a setcallback() of a user thread is inside its drain-and-install step on
\* a channel of side g
Draining(g) == \E t \in Threads : th[t].pc \in {"scb_get", "scb_install"} /\ SideOf(t) = g
\* the receiver of side g runs msg.received for the message it has read
Dispatching(g) ==
    \/ ReceiverDispatch(g)
    \/ ReceiverBreak(g) /\ readfrom(wire[Peer(g)]).st = "ok"

\* C14: on one gateway the dispatch of an inbound message never runs while
\* a setcallback() of another thread is between emptying the queue and
\* installing the callback, and while it drains it holds the receive lock
C14_DispatchExclusive ==
    [][ \A g \in Sides :
          /\ Dispatching(g) => ~Draining(g)
          /\ Draining(g) => receivelock[g] # 0 ]_vars
\* a setcallback is about to install its callback while a whole inbound
\* message waits to be dispatched on the same gateway
C14_Witness ==
    \E t \in Threads :
        /\ th[t].pc = "scb_install"
        /\ rpc[SideOf(t)] = "recv"
        /\ readfrom(wire[Peer(SideOf(t))]).st = "ok"

\* the close frame executetask owes for a task that ended with outcome
TaskCloseFrame(o, outcome) ==
    IF outcome = "raise"
    THEN Message(CHANNEL_CLOSE_ERROR, PyInt(chan[o].id), TaskErrorText)
    ELSE Message(CHANNEL_CLOSE, PyInt(chan[o].id), PyStr(<<>>))

\* C15: when a task the serve loop executes ends, its channel is closed
\* and, if it was open before, exactly one close frame was written for it:
\* CHANNEL_CLOSE_ERROR with the error text if the source raised,
\* CHANNEL_CLOSE otherwise
C15_TaskClosesChannel ==
    [][ \A outcome \in TaskOutcomes :
          ServeTask(outcome) =>
            LET o == Head(execqueue)[1]
            IN  /\ chan'[o].closed
                /\ ~chan[o].closed =>
                      wire'["B"] = wire["B"] \o writeto(TaskCloseFrame(o, outcome)).out ]_vars

\* C16: no task is executed after a task whose source raised
\* KeyboardInterrupt or SystemExit
C16_SysexBreaksLoop ==
    \A i \in 1..Len(serve.ran) :
        serve.ran[i].outcome = "sysex" => i = Len(serve.ran)

\* C17: once reading or dispatching a message failed the receiver of a
\* gateway dispatches nothing more; it stops the peer's exec loop (a slave
\* puts None on its _execqueue) and closes the write side, once each and
\* before _finished_receiving, which then runs exactly once
C17_TerminationOrder ==
    [][ \A g \in Sides :
          /\ Dispatching(g) => rpc[g] = "recv"
          /\ rpc[g] # "recv" => rpc'[g] # "recv"
          /\ ReceiverBreak(g) =>
                /\ rpc[g] = "recv" /\ ~finished[g] /\ ~finished'[g]
                /\ wclosed'[g]
                /\ execqueue' = IF IsSlave(g) THEN Append(execqueue, <<0, PyNone>>)
                                ELSE execqueue
          /\ FinishedReceiving(g) =>
                /\ rpc[g] = "finishing" /\ wclosed[g]
                /\ ~finished[g] /\ finished'[g]
          /\ finished[g] => finished'[g] /\ rpc[g] \notin {"recv", "finishing"} ]_vars
\* the receiver of the slave ended after a failure that was no end of
\* stream: the peer's write side is still open
C17_Witness ==
    /\ rpc["B"] = "done" /\ finished["B"] /\ wclosed["B"]
    /\ ~wclosed["A"]
    /\ serve.pc = "ended"

\* C18: once a factory is finished, a call that goes through new() on it
\* (newchannel(), remote_exec()) raises IOError, registers no channel and
\* leaves the id counter alone; no inbound CHANNEL_OPEN or CHANNEL_NEW is
\* dispatched on a finished factory
C18_NewAfterFinished ==
    [][ /\ \A g \in Sides :
             /\ (NewChannel(g) /\ finished[g]) =>
                    /\ exc' = Ended("newchannel", "IOError")
                    /\ chan' = chan /\ channels' = channels /\ count' = count
             /\ Dispatching(g) => ~finished[g]
        /\ (RemoteExec /\ finished["A"]) =>
             /\ exc' = Ended("remote_exec", "IOError")
             /\ chan' = chan /\ channels' = channels /\ count' = count
             /\ wire' = wire ]_vars
\* newchannel() was refused on a finished factory that had handed out ids
C18_Witness ==
    /\ exc = Ended("newchannel", "IOError")
    /\ \E g \in Sides : finished[g] /\ count[g] # StartCount(g)

\* C19: no two registered gateways of a group share an id, and registering
\* a gateway whose id another registered gateway holds is rejected
C19_UniqueIds ==
    \A m, n \in group.activegateways :
        m # n => group.gws[m].id # group.gws[n].id

\* C20: when terminate() has returned without timing out, exit was
\* requested for every gateway that was a member, the gateways of the
\* joining set were joined and, with a subprocess, waited for, the joining
\* set is empty and no gateway is active (gateways whose exit() leaves
\* the group, as Gateway.exit does)
C20_TerminateDrains ==
    group.tpc = "returned" =>
        /\ \A n \in group.tmembers :
               group.gws[n].unreg =>
                   /\ group.gws[n].exitreq /\ group.gws[n].joined
                   /\ group.gws[n].popen => group.gws[n].waited
        /\ group.gateways_to_join = <<>>
        /\ \A n \in group.activegateways : ~group.gws[n].unreg

\* C21: when terminate(timeout) timed out, every gateway with a subprocess
\* that was in the joining set at expiry and has left it since was killed
\* by the escalation or waited for by the worker; and nothing is killed
\* by a terminate() without timeout
C21_KillOrWait ==
    /\ \A n \in group.texp :
          (group.gws[n].popen /\ \A i \in 1..Len(group.gateways_to_join) :
                                     group.gateways_to_join[i] # n)
             => group.gws[n].killed \/ group.gws[n].waited
    /\ group.kpc # "none" => group.timeout

\* C22: a terminate() that follows another with no call in between calls
\* exit() on no gateway the first one called it on, and changes no group
\* state
C22_HookIdempotent ==
    [][ (group.rerun /\ group.tpc \in {"exiting", "joining", "waiting"}) =>
          /\ group'.gws = group.gws
          /\ group'.activegateways = group.activegateways
          /\ group'.id2gateway = group.id2gateway
          /\ group'.gateways_to_join = group.gateways_to_join
          /\ group'.autoidcounter = group.autoidcounter ]_vars

\* the last element of a non-empty sequence
Last(s) == s[Len(s)]
\* a call of send_each or receive_each has ended, and no later one begun
EachEnded == multi.pc = "idle" /\ multi.call \in {"send_each", "receive_each"}
\* what receive_each returns when the receive() on member i returned the
\* item that member's channel handed out last
EachResult(i) ==
    LET o == multi.channels[i]
    IN  IF multi.withchannel THEN PyTuple(<<ChanRef(o), Last(chan[o].got)>>)
        ELSE Last(chan[o].got)

RaisedMembers == {i \in 1..Len(multi.calls) : multi.calls[i].raised = "RemoteError"}

\* C24: MultiChannel.waitclose() calls waitclose() on every member channel,
\* also after a member raised a RemoteError; then it re-raises the
\* RemoteError of the first member, in list order, that raised one, and
\* returns normally if none did
C24_WaitCloseAll ==
    (multi.pc = "idle" /\ multi.call = "waitclose") =>
        /\ Len(multi.calls) = Len(multi.channels)
        /\ \A i \in 1..Len(multi.calls) : multi.calls[i].o = multi.channels[i]
        /\ IF RaisedMembers = {} THEN multi.raised = "none"
           ELSE LET k == CHOOSE i \in RaisedMembers : \A j \in RaisedMembers : i <= j
                IN  /\ multi.raised = "RemoteError"
                    /\ multi.firsti = k
                    /\ multi.first = chan[multi.channels[k]].rerr
\* the first of two members raised, and the second was waited for too
C24_Witness ==
    /\ multi.pc = "idle" /\ multi.call = "waitclose"
    /\ Len(multi.calls) = 2 /\ multi.calls[1].raised = "RemoteError"
    /\ multi.raised = "RemoteError"

\* the opcodes of the opcode table
Opcodes == {NONE, PY2STRING, PY3STRING, UNICODE, BYTES, NEWLIST, BUILDTUPLE,
            SETITEM, NEWDICT, INT, FLOAT, TRUE_, FALSE_, STOP}
\* opcodes of one byte that push one item and do nothing else
Pushes == {NONE, NEWDICT, TRUE_, FALSE_}
\* bytes 2..k-1 of the stream are pushes: byte k is met with k - 2 stack entries
MetAt(k) == k \in 2..Len(cstream) /\ \A j \in 2..(k - 1) : cstream[j] \in Pushes

\* C25: Unserializer.load raises UnserializationError, and returns no value,
\* when the first byte is not the version 1, when it meets a byte that is
\* no opcode, when it meets SETITEM with fewer than three stack entries,
\* and when it meets STOP with a stack that does not hold exactly one item
C25_LoadRejects ==
    (cpc = "loaded" /\ cstream # <<>>) =>
        /\ cstream[1] # 1 => cres.st = "UnserializationError"
        /\ \A k \in 2..Len(cstream) :
              (/\ cstream[1] = 1 /\ MetAt(k)
               /\ \/ cstream[k] \notin Opcodes
                  \/ cstream[k] = SETITEM /\ k - 2 < 3
                  \/ cstream[k] = STOP /\ k - 2 # 1)
                 => cres.st = "UnserializationError"
        /\ cres.st # "ok" => cres.value = PyNone
\* SETITEM met with two stack entries
C25_Witness ==
    /\ cpc = "loaded" /\ Len(cstream) = 4 /\ cstream[1] = 1 /\ MetAt(4)
    /\ cstream[4] = SETITEM /\ cres.st = "UnserializationError"

\* C26: Serializer.save raises SerializationError for every integer above
\* 2^31 - 1 and for every integer below -2^31, and the 4-byte field it
\* writes for an integer encodes a value of that range, the integer's
C26_SaveRange ==
    /\ (cpc \in {"saved", "savefailed", "savecrashed"} /\ cobj.t = "long") =>
          cpc = "savefailed"
    /\ (cpc = "saved" /\ cobj.t = "int") =>
          /\ cstream = <<VERSION_NUMBER, INT>> \o PackInt4(cobj.v) \o <<STOP>>
          /\ UnpackInt4(SubSeq(cstream, 3, 6)) = cobj.v

\* the frame Channel.__del__ owes the peer for channel object o
DropFrame(o) ==
    Message(IF chan[o].cbk.installed THEN CHANNEL_LAST_MESSAGE ELSE CHANNEL_CLOSE,
            PyInt(chan[o].id), PyStr(<<>>))
\* what the step appended to the bytes side g wrote
Added(g) == SubSeq(wire'[g], Len(wire[g]) + 1, Len(wire'[g]))

\* C29 as stated: when the last reference to a channel is dropped, exactly
\* one frame is sent if the channel is still opened, CHANNEL_LAST_MESSAGE
\* if a callback was installed and CHANNEL_CLOSE otherwise, and no frame is
\* sent if the channel is closed or sendonly
C29_DropNotifies ==
    [][ \A o \in Objects :
          Drop(o) =>
            IF ~chan[o].closed /\ ~chan[o].rclosed
            THEN OneFrame(Added(chan[o].side), DropFrame(o))
            ELSE wire' = wire ]_vars

\* C29, amended: the frame is sent if the channel is still opened and its
\* gateway has not closed the write side of its transport; after that
\* (gateway.exit(), or the end of the receiver thread) nothing is sent
C29_DropNotifiesWhileOpen ==
    [][ \A o \in Objects :
          Drop(o) =>
            IF ~chan[o].closed /\ ~chan[o].rclosed /\ ~wclosed[chan[o].side]
            THEN OneFrame(Added(chan[o].side), DropFrame(o))
            ELSE wire' = wire ]_vars
\* an opened channel with a callback was dropped, and its frame is what
\* the peer is to read next
C29_Witness ==
    \E o \in Objects :
        /\ chan[o].deleted /\ ~chan[o].closed /\ ~chan[o].rclosed
        /\ chan[o].cbk.installed
        /\ wire[chan[o].side] =
              writeto(Message(CHANNEL_LAST_MESSAGE, PyInt(chan[o].id), PyStr(<<>>))).out

\* the frame the receiver of side g reads next
NextFrame(g) == readfrom(wire[Peer(g)])

\* C27: on a CHANNEL_DATA frame for id, _local_receive calls the callback
\* registered for id once with the data, also when the channel object is
\* gone; without a callback it appends the data to the queue of the channel
\* registered for id, if there is one and it has a queue; else it drops
\* the data.  It raises nothing, and no other channel and no registration
\* changes
C27_Routing ==
    [][ \A g \in Sides :
          (/\ ReceiverDispatch(g)
           /\ NextFrame(g).msg.msgtype = CHANNEL_DATA
           /\ NextFrame(g).msg.channelid.t = "int") =>
            LET id == NextFrame(g).msg.channelid.v
                data == NextFrame(g).msg.data
                o == Get(channels[g], id)
            IN  /\ ~ReceivedRaises(NextFrame(g).msg)
                /\ rpc'[g] = "recv"
                /\ channels' = channels /\ callbacks' = callbacks
                /\ IF Has(callbacks[g], id)
                   THEN /\ cblog' = [cblog EXCEPT ![g] =
                                        Append(@, [cb |-> Get(callbacks[g], id).cb,
                                                   arg |-> data])]
                        /\ chan' = chan
                   ELSE IF Has(channels[g], id) /\ ~chan[o].noitems
                   THEN /\ chan' = [chan EXCEPT ![o].q = Append(@, data),
                                                ![o].enq = Append(@, data)]
                        /\ cblog' = cblog
                   ELSE chan' = chan /\ cblog' = cblog ]_vars
\* the callback of a channel object that is gone got a data item after
\* the object went
C27_Witness ==
    \E o \in Objects :
        /\ chan[o].deleted /\ Len(cblog[chan[o].side]) > chan[o].dlog
        /\ cblog[chan[o].side][chan[o].dlog + 1].cb = chan[o].cbk.cb
        /\ cblog[chan[o].side][chan[o].dlog + 1].arg.t = "int"

\* channel object o is in the state sendonly
Sendonly(o) == chan[o].rclosed /\ ~chan[o].closed
\* the step is the receipt of CHANNEL_LAST_MESSAGE for the opened channel o
LastMessageFor(o) ==
    /\ ReceiverDispatch(chan[o].side)
    /\ NextFrame(chan[o].side).msg.msgtype = CHANNEL_LAST_MESSAGE
    /\ NextFrame(chan[o].side).msg.channelid = PyInt(chan[o].id)
    /\ Has(channels[chan[o].side], chan[o].id)
    /\ Get(channels[chan[o].side], chan[o].id) = o
    /\ ~chan[o].rclosed /\ ~chan[o].closed
\* the receipt sets the receive-closed event, leaves the closed flag
\* unset, puts ENDMARKER on the queue the channel has and takes the
\* channel out of _channels
SendonlyTransition(o) ==
    LastMessageFor(o) =>
        /\ chan'[o].rclosed /\ ~chan'[o].closed
        /\ chan'[o].q = IF chan[o].noitems THEN chan[o].q
                        ELSE Append(chan[o].q, ENDMARKER)
        /\ ~Has(channels'[chan[o].side], chan[o].id)
\* on a sendonly channel: waitclose() returns, no data is put on the
\* queue, and only close() or a received CHANNEL_CLOSE sets the closed flag
SendonlyStays(o) ==
    Sendonly(o) =>
        /\ WaitClose(o) => exc' = Ended("waitclose", "none")
        /\ chan'[o].enq \in {chan[o].enq, Append(chan[o].enq, ENDMARKER)}
        /\ chan'[o].closed =>
              \/ \E t \in Threads : CloseFlags(t) /\ th[t].o = o
              \/ /\ ReceiverDispatch(chan[o].side)
                 /\ NextFrame(chan[o].side).msg.msgtype = CHANNEL_CLOSE

Passed(o) ==
    LET calls == SelectSeq(cblog[chan[o].side], LAMBDA c : c.cb = chan[o].cbk.cb)
    IN  [i \in 1..Len(calls) |-> calls[i].arg]
\* the items the peer sent on the channel of o
PeerSent(o) == sentlog[Peer(chan[o].side)][chan[o].id]
\* the members of a sequence
Members(s) == {s[i] : i \in 1..Len(s)}

\* C30: on a channel that is and stays open, once setcallback(cb) has
\* begun, cb is passed items the peer sent that receive() did not return,
\* each once and in send order; when it has installed cb and the receiver
\* has delivered all the peer wrote, cb has been passed every such item and
\* the queue the channel had is empty
C30_HandOver ==
    \A o \in Objects :
        (chan[o].side = "A" /\ chan[o].noitems) =>
            /\ Passed(o) = SelectSeq(PeerSent(o), LAMBDA x : x \in Members(Passed(o)))
            /\ Members(Passed(o)) \cap Members(chan[o].got) = {}
            /\ (chan[o].cbk.installed /\ wire["B"] = <<>>) =>
                  /\ Passed(o) = SelectSeq(PeerSent(o),
                                           LAMBDA x : x \notin Members(chan[o].got))
                  /\ chan[o].q = <<>>
\* the peer sent three items: a receive() returned one, the callback that
\* setcallback installed was passed the other two, and nothing is in flight
C30_Witness ==
    \E o \in Objects :
        /\ chan[o].side = "A" /\ chan[o].cbk.installed /\ wire["B"] = <<>>
        /\ Len(chan[o].got) = 1 /\ Len(Passed(o)) = 2
        /\ Len(PeerSent(o)) = 3

\* C31: BUILDTUPLE with a length N between 0 and the depth of the stack
\* removes the top N entries and pushes one tuple of them in stack order;
\* the entries below stay, and the depth changes by 1 - N
C31_BuildtupleEffect ==
    cpc = "built" =>
        LET stack == cobj.v
            N == cres.pos
            after == cres.value.v
            kept == Len(stack) - N
        IN  /\ Len(after) = kept + 1
            /\ SubSeq(after, 1, kept) = SubSeq(stack, 1, kept)
            /\ after[Len(after)] = PyTuple(SubSeq(stack, kept + 1, Len(stack)))

\* C32: once a receive() on a channel has raised EOFError or RemoteError,
\* no later receive() on that channel returns a data item
C32_StickyEof ==
    \A o \in Objects :
        \A i \in 1..Len(chan[o].got) : \A j \in (i + 1)..Len(chan[o].got) :
            chan[o].got[i].t = "raise" => chan[o].got[j].t = "raise"

\* C33: a factory routes an id to at most one channel object: no step,
\* new(id) on a received CHANNEL_OPEN or CHANNEL_NEW included, puts another
\* channel object in the place of one that is registered under the id,
\* still open and not dropped
C33_OneChannelPerId ==
    [][ \A g \in Sides : \A id \in ChanIds :
          (/\ Has(channels[g], id)
           /\ Live(Get(channels[g], id))
           /\ ~chan[Get(channels[g], id)].closed
           /\ ~chan[Get(channels[g], id)].rclosed
           /\ Has(channels'[g], id))
          => Get(channels'[g], id) = Get(channels[g], id) ]_vars

\* C34: a send() whose item cannot be encoded writes no byte of its frame
\* to the transport and raises to its caller
C34_FailedSendWritesNothing ==
    [][ \A o \in Objects : \A item \in Sendable(o) :
          (/\ Send(o, item)
           /\ ~chan[o].closed
           /\ ~writeto(SendMessage(o, item)).ok)
          => /\ wire' = wire
             /\ exc'.call = "send" /\ exc'.raised # "none" ]_vars

RECURSIVE CloseNotices(_, _)
\* how many of the frames in bytes are a CHANNEL_CLOSE, CHANNEL_CLOSE_ERROR
\* or CHANNEL_LAST_MESSAGE for id
CloseNotices(bytes, id) ==
    IF bytes = <<>> THEN 0
    ELSE LET r == readfrom(bytes)
         IN  IF r.st # "ok" THEN 0
             ELSE (IF /\ r.msg.msgtype \in {CHANNEL_CLOSE, CHANNEL_CLOSE_ERROR,
                                           CHANNEL_LAST_MESSAGE}
                      /\ r.msg.channelid = PyInt(id)
                   THEN 1 ELSE 0)
                  + CloseNotices(SubSeq(bytes, r.pos + 1, Len(bytes)), id)

\* C35: a side writes at most one CHANNEL_CLOSE, CHANNEL_CLOSE_ERROR or
\* CHANNEL_LAST_MESSAGE frame for a channel id; so the bytes it wrote that
\* the peer has not read yet hold at most one
C35_OneCloseNotice ==
    \A g \in Sides : \A id \in ChanIds : CloseNotices(wire[g], id) <= 1

\* C36: on CHANNEL_OPEN for id c a gateway that does not serve queues
\* nothing for execution, writes exactly one CHANNEL_CLOSE_ERROR frame for
\* c with the text "execution disallowed" and leaves the channel it made
\* closed and unregistered; a serving gateway appends (channel, source) to
\* its exec queue, keeps the channel registered and writes nothing
C36_ExecRefused ==
    [][ \A g \in Sides :
          (/\ ReceiverDispatch(g)
           /\ NextFrame(g).msg.msgtype = CHANNEL_OPEN
           /\ NextFrame(g).msg.channelid.t = "int") =>
            LET c == NextFrame(g).msg.channelid.v
                o == Len(chan) + 1
            IN  /\ Len(chan') = o /\ chan'[o].id = c /\ chan'[o].side = g
                /\ IF IsSlave(g)
                   THEN /\ execqueue' = Append(execqueue, <<o, NextFrame(g).msg.data>>)
                        /\ Get(channels'[g], c) = o
                        /\ ~chan'[o].closed
                        /\ wire'[g] = wire[g]
                   ELSE /\ execqueue' = execqueue
                        /\ OneFrame(Added(g), Message(CHANNEL_CLOSE_ERROR, PyInt(c),
                                                      ExecutionDisallowed))
                        /\ chan'[o].closed
                        /\ ~Has(channels'[g], c) ]_vars

\* C36, amended: the same, with the CHANNEL_CLOSE_ERROR frame written as
\* long as the gateway has not closed the write side of its transport, and
\* nothing written after that
C36_ExecRefusedWhileOpen ==
    [][ \A g \in Sides :
          (/\ ReceiverDispatch(g)
           /\ NextFrame(g).msg.msgtype = CHANNEL_OPEN
           /\ NextFrame(g).msg.channelid.t = "int") =>
            LET c == NextFrame(g).msg.channelid.v
                o == Len(chan) + 1
            IN  /\ Len(chan') = o /\ chan'[o].id = c /\ chan'[o].side = g
                /\ IF IsSlave(g)
                   THEN /\ execqueue' = Append(execqueue, <<o, NextFrame(g).msg.data>>)
                        /\ Get(channels'[g], c) = o
                        /\ ~chan'[o].closed
                        /\ wire'[g] = wire[g]
                   ELSE /\ execqueue' = execqueue
                        /\ IF wclosed[g] THEN wire'[g] = wire[g]
                           ELSE OneFrame(Added(g), Message(CHANNEL_CLOSE_ERROR, PyInt(c),
                                                           ExecutionDisallowed))
                        /\ chan'[o].closed
                        /\ ~Has(channels'[g], c) ]_vars
\* the initiating side has refused a CHANNEL_OPEN, its reply is on the
\* wire, and the serving side has queued one
C36_Witness ==
    /\ execqueue # <<>>
    /\ \E o \in Objects :
          /\ chan[o].side = "A" /\ ~chan[o].minted /\ chan[o].closed
          /\ ~Has(channels["A"], chan[o].id)
          /\ CloseNotices(wire["A"], chan[o].id) = 1
====
